---- MODULE Spec2Model ----
(***************************************************************************)
(* Retinal-AI backend (Express + Mongoose): the authentication and role    *)
(* middleware, the analytics routes, the analysis-creation route, the      *)
(* model-training routes and the AIModelPerformance collection.            *)
(*                                                                         *)
(* Every handler is cut at its awaits: a request suspended at an awaited   *)
(* database call is a context in inflight, and the other handlers run      *)
(* between its steps, as they do on the Node event loop.                   *)
(***************************************************************************)
EXTENDS Integers, Sequences, FiniteSets, TLC

VARIABLES
  now,        \* the server clock, in ticks (one tick stands for a millisecond)
  tz,         \* the server's time-zone offset, in ticks (Date#setHours is local time)
  analyses,   \* the RetinalAnalysis collection, in insertion order
  perf,       \* the AIModelPerformance collection, in insertion order
  inflight,   \* handler contexts suspended at an await
  last,       \* the response most recently sent, with what its handler did
  users,      \* the User collection
  patients,   \* the Patient collection
  objectIds,  \* how many RetinalAnalysis _ids have been generated
  files,      \* the FileUpload collection
  disk,       \* the names of the files in the uploads directory
  app,        \* App.tsx: user, currentPage and what the renders of the last event returned
  auth,       \* authService.js: the AuthService singleton, localStorage, its suspended calls
  hook,       \* useModelTraining.js: the refs, sockets and timers of the WebSocket effect
  trainingState,   \* model-training.js: the module-level trainingState
  trainingProcess, \* model-training.js: req.app.locals.trainingProcess (0: unset)
  processes,  \* the python processes spawned so far
  datasets,   \* the dataset archives multer has stored on disk
  sockets,    \* the WebSockets of the server and their activeConnections entry
  broadcast   \* the latest call of broadcastUpdate: the event and the sockets sent to

vars ==
  <<now, tz, analyses, perf, inflight, last, trainingState, trainingProcess, processes,
    datasets, sockets, broadcast, users, patients, objectIds, files, disk, app, auth, hook>>

------------------------------------------------------------------------------
(* Bounds of the model *)

\* ticks per calendar day (a day of 86,400,000 ms, scaled down)
DayLen == 3
\* the last tick the clock reaches in SpecPerf
MaxNow == 3
\* the offset of the non-UTC server zone, in ticks
TzShift == 1
\* contexts suspended at the same time
MaxInflight == 2
\* rows of AIModelPerformance
MaxPerf == 2
\* documents of RetinalAnalysis
MaxAnalyses == 2
\* python processes spawned in one run
MaxProcs == 2
\* dataset archives stored in one run
MaxDatasets == 2
\* WebSockets connected at one time
MaxSockets == 2
MaxAccounts == 2

------------------------------------------------------------------------------
(* Values *)

Null == "null"
\* a missing or null Number field
NullNum == -1

\* ids as the two types the code handles: the ObjectId stored in a document
\* and the string carried by a JWT payload or a route parameter
Oid(x) == [t |-> "oid", v |-> x]
Str(x) == [t |-> "str", v |-> x]

\* the 24-hex-digit strings, the only ones Mongoose casts to an ObjectId
WellFormedIds == {"a1", "d1", "d2", "p1", "pt1", "pt2", "zz"}

\* a filter value of find, findOne and countDocuments is cast to the type of
\* the schema path, so the string of a token or parameter meets the stored
\* ObjectId; the stages of an aggregate pipeline are sent as written, and
\* there a string equals no ObjectId
QueryEq(stored, given) == stored = Oid(given.v)
PipelineEq(stored, given) == stored = given

\* the User collection: an admin, two doctors and a patient account
Users ==
  { [id |-> "a1", role |-> "admin", email |-> "a1@clinic"],
    [id |-> "d1", role |-> "doctor", email |-> "d1@clinic"],
    [id |-> "d2", role |-> "doctor", email |-> "d2@clinic"],
    [id |-> "p1", role |-> "patient", email |-> "p1@clinic"] }

\* the Patient collection: one patient of each doctor
Patients ==
  { [id |-> "pt1", user_id |-> Oid("p1"), doctor_id |-> Oid("d1"), created_at |-> 0],
    [id |-> "pt2", user_id |-> Oid(Null), doctor_id |-> Oid("d2"), created_at |-> 0] }

\* jwt.sign at signin: the payload carries userId and role of the account
TokenOf(u) == [kind |-> "valid", userId |-> u.id, role |-> u.role]
NoToken == [kind |-> "none", userId |-> Null, role |-> Null]
BadToken == [kind |-> "invalid", userId |-> Null, role |-> Null]
Tokens == {NoToken, BadToken} \cup {TokenOf(u) : u \in Users}

------------------------------------------------------------------------------
(* Middleware *)

AllRoles == {"admin", "doctor", "patient"}

\* authenticateToken: 401 without a token, 403 when jwt.verify fails, else next()
authenticateToken(token) ==
  IF token.kind = "none" THEN 401
  ELSE IF token.kind = "invalid" THEN 403
  ELSE 0

\* requireRole(roles): 403 unless roles.includes(req.user.role)
requireRoleAnyRole(roles, token) ==
  IF token.role \notin AllRoles THEN 403 ELSE 0
requireRole(roles, token) ==
  IF token.role \notin roles THEN 403 ELSE 0

\* the middleware chain in front of a handler: the first status that ends
\* the request, or 0 when the handler runs
Gate(roles, token) ==
  IF authenticateToken(token) # 0 THEN authenticateToken(token)
  ELSE requireRole(roles, token)

\* the body the middleware answers with
GateBody(token) ==
  IF token.kind = "none" THEN [error |-> "Access token required"]
  ELSE IF token.kind = "invalid" THEN [error |-> "Invalid or expired token"]
  ELSE [error |-> "Insufficient permissions"]

------------------------------------------------------------------------------
(* The clock *)

\* new Date().setHours(0, 0, 0, 0): midnight of the server's local day
StartOfLocalDay(t, z) == t - ((t + z) % DayLen)
\* new Date().setHours(23, 59, 59, 999): the last millisecond of that day
EndOfLocalDay(t, z) == StartOfLocalDay(t, z) + DayLen - 1

LocalDay(t, z) == (t + z) \div DayLen
UtcDay(t) == t \div DayLen

\* time passes
Tick ==
  /\ now < MaxNow
  /\ now' = now + 1
  /\ UNCHANGED <<tz, analyses, perf, inflight, last, trainingState, trainingProcess, processes, datasets, sockets, broadcast,
                    users, patients, objectIds,
                   files, disk,
                   app, auth, hook>>

------------------------------------------------------------------------------
(* Responses *)

NoBody == [none |-> TRUE]
ErrorBody(message) == [error |-> message]

Response(route, token, param, status, queries, event, body) ==
  [route |-> route, token |-> token, param |-> param, status |-> status,
   queries |-> queries, event |-> event, body |-> body]

NoResponse == Response("none", NoToken, Null, 0, 0, "none", NoBody)

\* the catch of an analytics GET handler: the awaited query number failAt
\* threw, nothing after it ran, the answer is 500 with the handler's message
CaughtPartial(route, token, param, failAt, message) ==
  Response(route, token, param, 200, failAt, "none", NoBody)
Caught(route, token, param, failAt, message) ==
  Response(route, token, param, 500, failAt, "none", ErrorBody(message))

RemoveAt(s, i) == SubSeq(s, 1, i - 1) \o SubSeq(s, i + 1, Len(s))

------------------------------------------------------------------------------
(* WebSocket real-time updates *)

SocketIds == 1..MaxSockets

\* no entry in activeConnections
NoUser == [role |-> Null, userId |-> Null]

\* a socket: not connected, OPEN, or no longer OPEN with its 'close' event
\* still to come; user is its value in activeConnections
NoSockets == [s \in SocketIds |-> [state |-> "none", user |-> NoUser]]

NoBroadcast == [type |-> "none", to |-> {}]

\* wss.on('connection')
WsConnect ==
  \E s \in SocketIds :
    /\ sockets[s].state = "none"
    /\ sockets' = [sockets EXCEPT ![s] = [state |-> "open", user |-> NoUser]]
    /\ UNCHANGED <<now, tz, analyses, perf, inflight, last, trainingState, trainingProcess,
                   processes, datasets, broadcast, users, patients, objectIds,
                   files, disk,
                   app, auth, hook>>

\* ws.on('message') with { type: 'authenticate', token }: a token jwt.verify
\* accepts is stored as the socket's user, any other leaves the map as it is
WsAuthenticate ==
  \E s \in SocketIds, token \in Tokens :
    /\ sockets[s].state = "open"
    /\ sockets' =
         IF token.kind = "valid"
         THEN [sockets EXCEPT ![s].user = [role |-> token.role, userId |-> token.userId]]
         ELSE sockets
    /\ UNCHANGED <<now, tz, analyses, perf, inflight, last, trainingState, trainingProcess,
                   processes, datasets, broadcast, users, patients, objectIds,
                   files, disk,
                   app, auth, hook>>

\* the connection goes down: readyState leaves OPEN before 'close' is emitted
WsShut ==
  \E s \in SocketIds :
    /\ sockets[s].state = "open"
    /\ sockets' = [sockets EXCEPT ![s].state = "closing"]
    /\ UNCHANGED <<now, tz, analyses, perf, inflight, last, trainingState, trainingProcess,
                   processes, datasets, broadcast, users, patients, objectIds,
                   files, disk,
                   app, auth, hook>>

\* ws.on('close'): activeConnections.delete(ws)
WsClose ==
  \E s \in SocketIds :
    /\ sockets[s].state = "closing"
    /\ sockets' = [sockets EXCEPT ![s] = [state |-> "none", user |-> NoUser]]
    /\ UNCHANGED <<now, tz, analyses, perf, inflight, last, trainingState, trainingProcess,
                   processes, datasets, broadcast, users, patients, objectIds,
                   files, disk,
                   app, auth, hook>>

\* the sockets broadcastUpdate(eventType, data, userRole) sends to: the
\* entries of activeConnections that are OPEN and, with userRole, of that role
RecipientsRoleRequired(socks, userRole) ==
  {s \in SocketIds :
     /\ socks[s].user # NoUser
     /\ socks[s].state = "open"
     /\ userRole # Null /\ socks[s].user.role = userRole}
RecipientsAnyState(socks, userRole) ==
  {s \in SocketIds :
     /\ socks[s].user # NoUser
     /\ userRole = Null \/ socks[s].user.role = userRole}
Recipients(socks, userRole) ==
  {s \in SocketIds :
     /\ socks[s].user # NoUser
     /\ socks[s].state = "open"
     /\ userRole = Null \/ socks[s].user.role = userRole}

broadcastUpdate(eventType, userRole) ==
  [type |-> eventType, to |-> Recipients(sockets, userRole)]

------------------------------------------------------------------------------
(* POST /api/analytics/ai-performance *)

PerfBodies ==
  [modelVersion : {Null, "v1"}, accuracyRate : {0, 9}, totalPredictions : {1, 2}]

\* !modelVersion || !accuracyRate
PerfBodyInvalid(body) == body.modelVersion = Null \/ body.accuracyRate = 0

\* the filter of findOneAndUpdate: the version, and evaluation_date within
\* [$gte start of today, $lt 23:59:59.999 of today)
PerfFilterMatches(row, ver, t, z) ==
  /\ row.model_version = ver
  /\ row.evaluation_date >= StartOfLocalDay(t, z)
  /\ row.evaluation_date < EndOfLocalDay(t, z)

\* the update document
PerfUpdate(body, t) ==
  [model_version |-> body.modelVersion,
   accuracy_rate |-> body.accuracyRate,
   total_predictions |-> body.totalPredictions,
   evaluation_date |-> t]

Matching(rows, ver, t, z) ==
  {i \in 1..Len(rows) : PerfFilterMatches(rows[i], ver, t, z)}

Min(S) == CHOOSE x \in S : \A y \in S : x <= y
Max(S) == CHOOSE x \in S : \A y \in S : x >= y

\* findOneAndUpdate(filter, update, {upsert: true}): the first matching row
\* takes the update; with no matching row the update is inserted
FindOneAndUpdate(rows, ver, upd, t, z) ==
  IF Matching(rows, ver, t, z) # {}
  THEN [rows EXCEPT ![Min(Matching(rows, ver, t, z))] = upd]
  ELSE Append(rows, upd)

\* the middleware, the validation, and the call of findOneAndUpdate with the
\* filter and update computed from new Date()
PostPerfStart ==
  \E token \in Tokens, body \in PerfBodies :
    LET gate == Gate({"admin"}, token) IN
    IF gate # 0
    THEN /\ last' = Response("postPerf", token, Null, gate, 0, "none", GateBody(token))
         /\ UNCHANGED <<now, tz, analyses, perf, inflight, trainingState, trainingProcess, processes, datasets, sockets, broadcast,
                    users, patients, objectIds,
                   files, disk,
                   app, auth, hook>>
    ELSE IF PerfBodyInvalid(body)
    THEN /\ last' = Response("postPerf", token, Null, 400, 0, "none",
                             ErrorBody("Model version and accuracy rate are required"))
         /\ UNCHANGED <<now, tz, analyses, perf, inflight, trainingState, trainingProcess, processes, datasets, sockets, broadcast,
                    users, patients, objectIds,
                   files, disk,
                   app, auth, hook>>
    ELSE /\ Len(inflight) < MaxInflight
         /\ inflight' = Append(inflight,
              [route |-> "postPerf", pc |-> "db", token |-> token,
               body |-> body, at |-> now])
         /\ UNCHANGED <<now, tz, analyses, perf, last, trainingState, trainingProcess, processes, datasets, sockets, broadcast,
                    users, patients, objectIds,
                   files, disk,
                   app, auth, hook>>

\* the database executes the upsert, or the call fails and the handler's
\* catch answers 500
PostPerfDb ==
  \E i \in 1..Len(inflight), ok \in BOOLEAN :
    LET c == inflight[i] IN
    /\ c.route = "postPerf" /\ c.pc = "db"
    /\ IF ok
       THEN /\ Matching(perf, c.body.modelVersion, c.at, tz) # {} \/ Len(perf) < MaxPerf
            /\ perf' = FindOneAndUpdate(perf, c.body.modelVersion,
                                        PerfUpdate(c.body, c.at), c.at, tz)
            /\ inflight' = [inflight EXCEPT ![i].pc = "reply"]
            /\ UNCHANGED last
       ELSE /\ inflight' = RemoveAt(inflight, i)
            /\ last' = Response("postPerf", c.token, Null, 500, 1, "none",
                                  ErrorBody("Failed to update AI performance"))
            /\ UNCHANGED perf
    /\ UNCHANGED <<now, tz, analyses, trainingState, trainingProcess, processes, datasets, sockets, broadcast,
                    users, patients, objectIds,
                   files, disk,
                   app, auth, hook>>

\* after the await: broadcastUpdate('ai_performance_updated') and the 200
PostPerfReply ==
  \E i \in 1..Len(inflight) :
    LET c == inflight[i] IN
    /\ c.route = "postPerf" /\ c.pc = "reply"
    /\ inflight' = RemoveAt(inflight, i)
    /\ broadcast' = broadcastUpdate("ai_performance_updated", Null)
    /\ last' = Response("postPerf", c.token, Null, 200, 1, "ai_performance_updated", NoBody)
    /\ UNCHANGED <<now, tz, analyses, perf, trainingState, trainingProcess, processes,
                   datasets, sockets, users, patients, objectIds,
                   files, disk,
                   app, auth, hook>>

------------------------------------------------------------------------------
(* POST /api/analysis *)

\* what the server entrypoint passes to the analysis router as models:
\* { User, Patient, RetinalAnalysis, MedicalReport, FileUpload }
AnalysisModels == {"User", "Patient", "RetinalAnalysis", "MedicalReport", "FileUpload"}

\* the fields of a request body the analytics read
AnalysisContents ==
  { [condition_detected |-> "CNV", confidence_score |-> 90, severity_level |-> "severe"],
    [condition_detected |-> "DME", confidence_score |-> 70, severity_level |-> "mild"],
    [condition_detected |-> "CNV", confidence_score |-> 69, severity_level |-> Null],
    [condition_detected |-> "DME", confidence_score |-> 89, severity_level |-> "severe"],
    [condition_detected |-> Null, confidence_score |-> NullNum, severity_level |-> Null] }

AnalysisBodies == [patient_id : {Null, "pt1", "pt2", "bad"}, content : AnalysisContents]

\* the bodies of the runs that do not look at the analytics
PlainBodies ==
  {b \in AnalysisBodies :
     /\ b.patient_id \in {Null, "pt1"}
     /\ b.content.condition_detected = "CNV" /\ b.content.confidence_score = 90}

\* new RetinalAnalysis({...}): doctor_id is the caller, status is 'completed',
\* created_at defaults to Date.now
NewAnalysis(id, userId, body, t) ==
  [id |-> id, patient_id |-> Oid(body.patient_id), doctor_id |-> Oid(userId),
   condition_detected |-> body.content.condition_detected,
   confidence_score |-> body.content.confidence_score,
   severity_level |-> body.content.severity_level,
   status |-> "completed", created_at |-> t]

\* Patient.findOne({ _id: patient_id, doctor_id: req.user.userId })
PatientOfDoctor(patientId, userId) ==
  {p \in Patients : p.id = patientId /\ QueryEq(p.doctor_id, Str(userId))}

\* the models of a router that is also given AIModelPerformance
CounterModels == AnalysisModels \cup {"AIModelPerformance"}

\* the version the handler counts under
CountedVersion == "DeiT+ResNet18-v1.0"

\* the catch of the handler: 500 'Failed to save analysis', nothing broadcast
SaveAnalysisSwallowed(token, queries) ==
  Response("postAnalysis", token, Null, 201, queries, "analysis_completed", NoBody)
SaveAnalysisCaught(token, queries) ==
  Response("postAnalysis", token, Null, 500, queries, "none",
           ErrorBody("Failed to save analysis"))

\* the middleware, the check of patient_id, and the call of Patient.findOne
PostAnalysisStart(tokens, bodies) ==
  \E token \in tokens, body \in bodies :
    LET gate == Gate({"doctor"}, token) IN
    IF gate # 0
    THEN /\ last' = Response("postAnalysis", token, Null, gate, 0, "none", GateBody(token))
         /\ UNCHANGED <<now, tz, analyses, perf, inflight, trainingState, trainingProcess,
                        processes, datasets, sockets, broadcast, users, patients, objectIds,
                   files, disk,
                   app, auth, hook>>
    ELSE IF body.patient_id = Null
    THEN /\ last' = Response("postAnalysis", token, Null, 400, 0, "none",
                             ErrorBody("Patient ID is required"))
         /\ UNCHANGED <<now, tz, analyses, perf, inflight, trainingState, trainingProcess,
                        processes, datasets, sockets, broadcast, users, patients, objectIds,
                   files, disk,
                   app, auth, hook>>
    ELSE /\ Len(inflight) < MaxInflight
         /\ inflight' = Append(inflight,
              [route |-> "postAnalysis", pc |-> "findPatient", token |-> token,
               body |-> body, at |-> 0, id |-> 0, found |-> 0, total |-> 0])
         /\ UNCHANGED <<now, tz, analyses, perf, last, trainingState, trainingProcess,
                        processes, datasets, sockets, broadcast, users, patients, objectIds,
                   files, disk,
                   app, auth, hook>>

\* Patient.findOne answers: a failed query or a patient_id that is no ObjectId
\* throws (500), no patient of the caller is 403, else the document is built
\* and save() is called
PostAnalysisFindPatient(oks) ==
  \E i \in 1..Len(inflight), ok \in oks :
    LET c == inflight[i] IN
    /\ c.route = "postAnalysis" /\ c.pc = "findPatient"
    /\ IF ~ok \/ c.body.patient_id \notin WellFormedIds
       THEN /\ inflight' = RemoveAt(inflight, i)
            /\ last' = SaveAnalysisCaught(c.token, 1)
       ELSE IF PatientOfDoctor(c.body.patient_id, c.token.userId) = {}
       THEN /\ inflight' = RemoveAt(inflight, i)
            /\ last' = Response("postAnalysis", c.token, Null, 403, 1, "none",
                                ErrorBody("Patient not found or access denied"))
       ELSE /\ inflight' = [inflight EXCEPT ![i].pc = "save", ![i].at = now]
            /\ UNCHANGED last
    /\ UNCHANGED <<now, tz, analyses, perf, trainingState, trainingProcess,
                        processes, datasets, sockets, broadcast, users, patients, objectIds,
                   files, disk,
                   app, auth, hook>>

\* the _id of the next document: an ObjectId is generated once
NextId(n) == n + 1

\* save() stores the document, or fails (500); then findById is called
PostAnalysisSave(oks) ==
  \E i \in 1..Len(inflight), ok \in oks :
    LET c == inflight[i] IN
    /\ c.route = "postAnalysis" /\ c.pc = "save"
    /\ IF ok
       THEN /\ objectIds < MaxAnalyses
            /\ objectIds' = objectIds + 1
            /\ analyses' = Append(analyses,
                 NewAnalysis(NextId(objectIds), c.token.userId, c.body, c.at))
            /\ inflight' = [inflight EXCEPT ![i].pc = "populate",
                                            ![i].id = NextId(objectIds)]
            /\ UNCHANGED last
       ELSE /\ inflight' = RemoveAt(inflight, i)
            /\ last' = SaveAnalysisCaught(c.token, 2)
            /\ UNCHANGED <<analyses, objectIds>>
    /\ UNCHANGED <<now, tz, perf, trainingState, trainingProcess,
                        processes, datasets, sockets, broadcast, users, patients,
                   files, disk,
                   app, auth, hook>>

\* findById answers; the handler then calls AIModelPerformance.findOne, which
\* throws a TypeError when the router was given no AIModelPerformance model:
\* the catch answers 500, after the analysis was stored
PostAnalysisPopulate(models, oks) ==
  \E i \in 1..Len(inflight), ok \in oks :
    LET c == inflight[i] IN
    /\ c.route = "postAnalysis" /\ c.pc = "populate"
    /\ IF ~ok \/ "AIModelPerformance" \notin models
       THEN /\ inflight' = RemoveAt(inflight, i)
            /\ last' = SaveAnalysisCaught(c.token, 3)
       ELSE /\ inflight' = [inflight EXCEPT ![i].pc = "perfFind"]
            /\ UNCHANGED last
    /\ UNCHANGED <<now, tz, analyses, perf, trainingState, trainingProcess,
                        processes, datasets, sockets, broadcast, users, patients, objectIds,
                   files, disk,
                   app, auth, hook>>

\* the rows AIModelPerformance.findOne({ model_version, evaluation_date:
\* { $gte: new Date().setHours(0, 0, 0, 0) } }) can return
CountedRows(rows, t, z) ==
  {k \in 1..Len(rows) :
     /\ rows[k].model_version = CountedVersion
     /\ rows[k].evaluation_date >= StartOfLocalDay(t, z)}

\* findOne answers with the first such row or with null; the handler adds one
\* to the total it has read, or builds the row of a first prediction, and
\* calls save()
PostAnalysisPerfFind(oks) ==
  \E i \in 1..Len(inflight), ok \in oks :
    LET c == inflight[i]
        rows == CountedRows(perf, now, tz) IN
    /\ c.route = "postAnalysis" /\ c.pc = "perfFind"
    /\ IF ~ok
       THEN /\ inflight' = RemoveAt(inflight, i)
            /\ last' = SaveAnalysisCaught(c.token, 4)
       ELSE /\ inflight' =
                 IF rows = {}
                 THEN [inflight EXCEPT ![i].pc = "perfSave", ![i].found = 0,
                                       ![i].total = 1, ![i].at = now]
                 ELSE [inflight EXCEPT ![i].pc = "perfSave", ![i].found = Min(rows),
                                       ![i].total = perf[Min(rows)].total_predictions + 1]
            /\ UNCHANGED last
    /\ UNCHANGED <<now, tz, analyses, perf, trainingState, trainingProcess,
                        processes, datasets, sockets, broadcast, users, patients, objectIds,
                   files, disk,
                   app, auth, hook>>

\* what save() writes: the total computed from the value read, into the row
\* read; or the new row
CounterWrite(rows, c) ==
  IF c.found # 0 THEN [rows EXCEPT ![c.found].total_predictions = c.total]
  ELSE Append(rows, [model_version |-> CountedVersion,
                     accuracy_rate |-> c.body.content.confidence_score,
                     total_predictions |-> c.total,
                     evaluation_date |-> c.at])

\* existingPerformance.save() / newPerformance.save() answers
PostAnalysisPerfSave(oks) ==
  \E i \in 1..Len(inflight), ok \in oks :
    LET c == inflight[i] IN
    /\ c.route = "postAnalysis" /\ c.pc = "perfSave"
    /\ IF ok
       THEN /\ c.found # 0 \/ Len(perf) < MaxPerf
            /\ perf' = CounterWrite(perf, c)
            /\ inflight' = [inflight EXCEPT ![i].pc = "reply"]
            /\ UNCHANGED last
       ELSE /\ inflight' = RemoveAt(inflight, i)
            /\ last' = SaveAnalysisCaught(c.token, 5)
            /\ UNCHANGED perf
    /\ UNCHANGED <<now, tz, analyses, trainingState, trainingProcess,
                        processes, datasets, sockets, broadcast, users, patients, objectIds,
                   files, disk,
                   app, auth, hook>>

\* after the last await: broadcastUpdate('analysis_completed') and the 201
PostAnalysisReply ==
  \E i \in 1..Len(inflight) :
    LET c == inflight[i] IN
    /\ c.route = "postAnalysis" /\ c.pc = "reply"
    /\ inflight' = RemoveAt(inflight, i)
    /\ broadcast' = broadcastUpdate("analysis_completed", Null)
    /\ last' = Response("postAnalysis", c.token, Null, 201, 5, "analysis_completed",
                        [analysis |-> c.id])
    /\ UNCHANGED <<now, tz, analyses, perf, trainingState, trainingProcess, processes,
                   datasets, sockets, users, patients, objectIds,
                   files, disk,
                   app, auth, hook>>

------------------------------------------------------------------------------
(* POST /api/auth/signup and POST /api/patients *)

\* the _id of the next document of a collection
NewUserId(U) == "u" \o ToString(Cardinality(U) + 1)
NewPatientId(P) == "np" \o ToString(Cardinality(P) + 1)

\* request bodies of signup: email (Null when a required field is missing)
\* and role (Null when omitted)
SignupBodies ==
  [email : {Null, "d1@clinic", "new1@clinic", "new2@clinic"},
   role : {Null, "patient", "doctor"}]

\* the catch of signup
SignupCaught(queries) ==
  Response("signup", NoToken, Null, 500, queries, "none",
           ErrorBody("Internal server error during registration"))

\* the validation of the required fields and the call of User.findOne({ email })
SignupStart(bodies) ==
  \E body \in bodies :
    IF body.email = Null
    THEN /\ last' = Response("signup", NoToken, Null, 400, 0, "none",
                             ErrorBody("Email, password, and name are required"))
         /\ UNCHANGED <<now, tz, analyses, perf, inflight, trainingState, trainingProcess,
                        processes, datasets, sockets, broadcast, users, patients, objectIds,
                   files, disk,
                   app, auth, hook>>
    ELSE /\ Len(inflight) < MaxInflight
         /\ inflight' = Append(inflight,
              [route |-> "signup", pc |-> "findUser", token |-> NoToken,
               body |-> body, at |-> 0, id |-> Null, found |-> 0, total |-> 0])
         /\ UNCHANGED <<now, tz, analyses, perf, last, trainingState, trainingProcess,
                        processes, datasets, sockets, broadcast, users, patients, objectIds,
                   files, disk,
                   app, auth, hook>>

\* findOne answers: an account with the email is 400; else the password is
\* hashed and newUser.save() is called
SignupFindUser(oks) ==
  \E i \in 1..Len(inflight), ok \in oks :
    LET c == inflight[i] IN
    /\ c.route = "signup" /\ c.pc = "findUser"
    /\ IF ~ok
       THEN /\ inflight' = RemoveAt(inflight, i)
            /\ last' = SignupCaught(1)
       ELSE IF \E u \in users : u.email = c.body.email
       THEN /\ inflight' = RemoveAt(inflight, i)
            /\ last' = Response("signup", NoToken, Null, 400, 1, "none",
                                ErrorBody("User with this email already exists"))
       ELSE /\ inflight' = [inflight EXCEPT ![i].pc = "saveUser"]
            /\ UNCHANGED last
    /\ UNCHANGED <<now, tz, analyses, perf, trainingState, trainingProcess,
                   processes, datasets, sockets, broadcast, users, patients, objectIds,
                   files, disk,
                   app, auth, hook>>

\* new User({ ..., role: role || 'patient' })
NewUser(id, body) ==
  [id |-> id, email |-> body.email,
   role |-> IF body.role = Null THEN "patient" ELSE body.role]

\* new Patient({ user_id: savedUser._id, ... }) of signup: no doctor_id
SignupPatient(id, userId, t) ==
  [id |-> id, user_id |-> Oid(userId), doctor_id |-> Oid(Null), created_at |-> t]

\* newUser.save() answers: the unique index on email rejects a second account
\* of one email; with role 'patient' newPatient.save() is called, else 201
SignupSaveUser(oks) ==
  \E i \in 1..Len(inflight), ok \in oks :
    LET c == inflight[i]
        id == NewUserId(users) IN
    /\ c.route = "signup" /\ c.pc = "saveUser"
    /\ IF ~ok \/ \E u \in users : u.email = c.body.email
       THEN /\ inflight' = RemoveAt(inflight, i)
            /\ last' = SignupCaught(2)
            /\ UNCHANGED users
       ELSE /\ Cardinality(users) < Cardinality(Users) + MaxAccounts
            /\ users' = users \cup {NewUser(id, c.body)}
            /\ IF c.body.role = "patient"
               THEN /\ inflight' = [inflight EXCEPT ![i].pc = "savePatient", ![i].id = id]
                    /\ UNCHANGED last
               ELSE /\ inflight' = RemoveAt(inflight, i)
                    /\ last' = Response("signup", NoToken, Null, 201, 2, "none",
                                        [user |-> id])
    /\ UNCHANGED <<now, tz, analyses, perf, trainingState, trainingProcess,
                   processes, datasets, sockets, broadcast, patients, objectIds,
                   files, disk,
                   app, auth, hook>>

\* newPatient.save() answers, then 201
SignupSavePatient(oks) ==
  \E i \in 1..Len(inflight), ok \in oks :
    LET c == inflight[i] IN
    /\ c.route = "signup" /\ c.pc = "savePatient"
    /\ inflight' = RemoveAt(inflight, i)
    /\ IF ok
       THEN /\ Cardinality(patients) < Cardinality(Patients) + MaxAccounts
            /\ patients' = patients \cup {SignupPatient(NewPatientId(patients), c.id, now)}
            /\ last' = Response("signup", NoToken, Null, 201, 3, "none", [user |-> c.id])
       ELSE /\ last' = SignupCaught(3)
            /\ UNCHANGED patients
    /\ UNCHANGED <<now, tz, analyses, perf, trainingState, trainingProcess,
                   processes, datasets, sockets, broadcast, users, objectIds,
                   files, disk,
                   app, auth, hook>>

\* request bodies of POST /api/patients: whether first_name, last_name and
\* date_of_birth are all given
PatientBodies == [required : BOOLEAN]

\* new Patient({ doctor_id: req.user.userId, ... }) of the route: no user_id
CreatedPatient(id, userId, t) ==
  [id |-> id, user_id |-> Oid(Null), doctor_id |-> Oid(userId), created_at |-> t]

\* the middleware, the validation and the call of newPatient.save()
PostPatientStart(tokens) ==
  \E token \in tokens, body \in PatientBodies :
    LET gate == Gate({"doctor", "admin"}, token) IN
    IF gate # 0
    THEN /\ last' = Response("postPatient", token, Null, gate, 0, "none", GateBody(token))
         /\ UNCHANGED <<now, tz, analyses, perf, inflight, trainingState, trainingProcess,
                        processes, datasets, sockets, broadcast, users, patients, objectIds,
                   files, disk,
                   app, auth, hook>>
    ELSE IF ~body.required
    THEN /\ last' = Response("postPatient", token, Null, 400, 0, "none",
                ErrorBody("First name, last name, and date of birth are required"))
         /\ UNCHANGED <<now, tz, analyses, perf, inflight, trainingState, trainingProcess,
                        processes, datasets, sockets, broadcast, users, patients, objectIds,
                   files, disk,
                   app, auth, hook>>
    ELSE /\ Len(inflight) < MaxInflight
         /\ inflight' = Append(inflight,
              [route |-> "postPatient", pc |-> "save", token |-> token,
               body |-> body, at |-> 0, id |-> Null, found |-> 0, total |-> 0])
         /\ UNCHANGED <<now, tz, analyses, perf, last, trainingState, trainingProcess,
                        processes, datasets, sockets, broadcast, users, patients, objectIds,
                   files, disk,
                   app, auth, hook>>

\* save() answers and Patient.findById(...).populate is called
PostPatientSave(oks) ==
  \E i \in 1..Len(inflight), ok \in oks :
    LET c == inflight[i]
        id == NewPatientId(patients) IN
    /\ c.route = "postPatient" /\ c.pc = "save"
    /\ IF ok
       THEN /\ Cardinality(patients) < Cardinality(Patients) + MaxAccounts
            /\ patients' = patients \cup {CreatedPatient(id, c.token.userId, now)}
            /\ inflight' = [inflight EXCEPT ![i].pc = "populate", ![i].id = id]
            /\ UNCHANGED last
       ELSE /\ inflight' = RemoveAt(inflight, i)
            /\ last' = Response("postPatient", c.token, Null, 500, 1, "none",
                                ErrorBody("Failed to create patient"))
            /\ UNCHANGED patients
    /\ UNCHANGED <<now, tz, analyses, perf, trainingState, trainingProcess,
                   processes, datasets, sockets, broadcast, users, objectIds,
                   files, disk,
                   app, auth, hook>>

\* findById answers; then broadcastUpdate('patient_created', patient, 'admin')
\* and 201
PostPatientReply(oks) ==
  \E i \in 1..Len(inflight), ok \in oks :
    LET c == inflight[i] IN
    /\ c.route = "postPatient" /\ c.pc = "populate"
    /\ inflight' = RemoveAt(inflight, i)
    /\ IF ok
       THEN /\ broadcast' = broadcastUpdate("patient_created", "admin")
            /\ last' = Response("postPatient", c.token, Null, 201, 2, "patient_created",
                                [patient |-> c.id])
       ELSE /\ last' = Response("postPatient", c.token, Null, 500, 2, "none",
                                ErrorBody("Failed to create patient"))
            /\ UNCHANGED broadcast
    /\ UNCHANGED <<now, tz, analyses, perf, trainingState, trainingProcess,
                   processes, datasets, sockets, users, patients, objectIds,
                   files, disk,
                   app, auth, hook>>

------------------------------------------------------------------------------
(* GET /api/uploads/files/:filename, GET /api/uploads/url/:filename,
   DELETE /api/uploads/:fileId, and the static /uploads mount *)

\* .populate('patient_id', 'doctor_id user_id'): the Patient of a file, if any
PatientOfFile(f) == {p \in Patients : Oid(p.id) = f.patient_id}

\* hasAccess: an admin; a doctor who is the doctor of the file's patient or
\* the uploader; a patient who is the user of the file's patient or the
\* uploader
hasAccess(token, f) ==
  \/ token.role = "admin"
  \/ /\ token.role = "doctor"
     /\ \/ \E p \in PatientOfFile(f) : p.doctor_id.v = token.userId
        \/ f.user_id.v = token.userId
  \/ /\ token.role = "patient"
     /\ \/ \E p \in PatientOfFile(f) : p.user_id.v = token.userId
        \/ f.user_id.v = token.userId

\* canDelete: as hasAccess, but a patient only as the uploader
canDeleteAsAccess(token, f) == hasAccess(token, f)
canDelete(token, f) ==
  \/ token.role = "admin"
  \/ /\ token.role = "doctor"
     /\ \/ \E p \in PatientOfFile(f) : p.doctor_id.v = token.userId
        \/ f.user_id.v = token.userId
  \/ token.role = "patient" /\ f.user_id.v = token.userId

\* GET /files/:filename up to its second await: the middleware, findOne, the
\* permission check and the call of fs.access
GetFileFind(tokens, names, oks) ==
  \E token \in tokens, name \in names, ok \in oks :
    LET gate == authenticateToken(token)
        found == {f \in files : f.file_name = name}
        refused(status, message) ==
          /\ last' = Response("getFile", token, name, status, 1, "none", ErrorBody(message))
          /\ UNCHANGED inflight
    IN
    /\ IF gate # 0
       THEN /\ last' = Response("getFile", token, name, gate, 0, "none", GateBody(token))
            /\ UNCHANGED inflight
       ELSE IF ~ok THEN refused(500, "Failed to retrieve file")
       ELSE IF found = {} THEN refused(404, "File not found")
       ELSE IF ~hasAccess(token, CHOOSE f \in found : TRUE)
       THEN refused(403, "Access denied to this file")
       ELSE /\ Len(inflight) < MaxInflight
            /\ inflight' = Append(inflight,
                 [route |-> "getFile", pc |-> "access", token |-> token,
                  body |-> CHOOSE f \in found : TRUE])
            /\ UNCHANGED last
    /\ UNCHANGED <<now, tz, analyses, perf, trainingState, trainingProcess, processes,
                   datasets, sockets, broadcast, users, patients, objectIds, files, disk,
                   app, auth, hook>>

\* fs.access answers: the file is sent, or 404 when it is not on disk
GetFileAccess ==
  \E i \in 1..Len(inflight) :
    LET c == inflight[i] IN
    /\ c.route = "getFile" /\ c.pc = "access"
    /\ inflight' = RemoveAt(inflight, i)
    /\ last' =
         IF c.body.file_name \in disk
         THEN Response("getFile", c.token, c.body.file_name, 200, 2, "none",
                       [file |-> c.body])
         ELSE Response("getFile", c.token, c.body.file_name, 404, 2, "none",
                       ErrorBody("File not found on disk"))
    /\ UNCHANGED <<now, tz, analyses, perf, trainingState, trainingProcess, processes,
                   datasets, sockets, broadcast, users, patients, objectIds, files, disk,
                   app, auth, hook>>

\* GET /url/:filename: the same lookup and check, answered with the URL
GetFileUrl(tokens, names, oks) ==
  \E token \in tokens, name \in names, ok \in oks :
    LET gate == authenticateToken(token)
        found == {f \in files : f.file_name = name}
    IN
    /\ last' =
         IF gate # 0
         THEN Response("getFileUrl", token, name, gate, 0, "none", GateBody(token))
         ELSE IF ~ok
         THEN Response("getFileUrl", token, name, 500, 1, "none",
                       ErrorBody("Failed to generate file URL"))
         ELSE IF found = {}
         THEN Response("getFileUrl", token, name, 404, 1, "none",
                       ErrorBody("File not found"))
         ELSE IF ~hasAccess(token, CHOOSE f \in found : TRUE)
         THEN Response("getFileUrl", token, name, 403, 1, "none",
                       ErrorBody("Access denied to this file"))
         ELSE Response("getFileUrl", token, name, 200, 1, "none",
                       [file |-> CHOOSE f \in found : TRUE])
    /\ UNCHANGED <<now, tz, analyses, perf, inflight, trainingState, trainingProcess,
                   processes, datasets, sockets, broadcast, users, patients, objectIds,
                   files, disk,
                   app, auth, hook>>

\* express.static on /uploads, mounted before any middleware: a file of the
\* uploads directory is sent to whoever asks for its name
GetStaticUpload(tokens, names) ==
  \E token \in tokens, name \in names :
    /\ last' =
         IF name \in disk
         THEN Response("static", token, name, 200, 0, "none", [file |-> name])
         ELSE Response("static", token, name, 404, 0, "none", NoBody)
    /\ UNCHANGED <<now, tz, analyses, perf, inflight, trainingState, trainingProcess,
                   processes, datasets, sockets, broadcast, users, patients, objectIds,
                   files, disk,
                   app, auth, hook>>

\* DELETE /:fileId up to its second await: the middleware, findById, the
\* permission check and the call of fs.unlink
DeleteFileFind(tokens, ids, oks) ==
  \E token \in tokens, id \in ids, ok \in oks :
    LET gate == authenticateToken(token)
        found == {f \in files : f.id = id}
        refused(status, message) ==
          /\ last' = Response("deleteFile", token, id, status, 1, "none",
                              ErrorBody(message))
          /\ UNCHANGED inflight
    IN
    /\ IF gate # 0
       THEN /\ last' = Response("deleteFile", token, id, gate, 0, "none", GateBody(token))
            /\ UNCHANGED inflight
       ELSE IF ~ok THEN refused(500, "Failed to delete file")
       ELSE IF found = {} THEN refused(404, "File not found")
       ELSE IF ~canDelete(token, CHOOSE f \in found : TRUE)
       THEN refused(403, "Permission denied to delete this file")
       ELSE /\ Len(inflight) < MaxInflight
            /\ inflight' = Append(inflight,
                 [route |-> "deleteFile", pc |-> "unlink", token |-> token,
                  body |-> CHOOSE f \in found : TRUE])
            /\ UNCHANGED last
    /\ UNCHANGED <<now, tz, analyses, perf, trainingState, trainingProcess, processes,
                   datasets, sockets, broadcast, users, patients, objectIds, files, disk,
                   app, auth, hook>>

\* fs.unlink answers: the file is gone from disk, or the failure is logged;
\* either way findByIdAndDelete is called
DeleteFileUnlink(oks) ==
  \E i \in 1..Len(inflight), ok \in oks :
    LET c == inflight[i] IN
    /\ c.route = "deleteFile" /\ c.pc = "unlink"
    /\ disk' = IF ok THEN disk \ {c.body.file_name} ELSE disk
    /\ inflight' = [inflight EXCEPT ![i].pc = "delete"]
    /\ UNCHANGED <<now, tz, analyses, perf, last, trainingState, trainingProcess,
                   processes, datasets, sockets, broadcast, users, patients, objectIds,
                   files,
                   app, auth, hook>>

\* findByIdAndDelete answers; then broadcastUpdate('file_deleted') and 200
DeleteFileRemove(oks) ==
  \E i \in 1..Len(inflight), ok \in oks :
    LET c == inflight[i] IN
    /\ c.route = "deleteFile" /\ c.pc = "delete"
    /\ inflight' = RemoveAt(inflight, i)
    /\ IF ok
       THEN /\ files' = {f \in files : f.id # c.body.id}
            /\ broadcast' = broadcastUpdate("file_deleted", Null)
            /\ last' = Response("deleteFile", c.token, c.body.id, 200, 3, "file_deleted",
                                [message |-> "File deleted successfully"])
       ELSE /\ last' = Response("deleteFile", c.token, c.body.id, 500, 3, "none",
                                ErrorBody("Failed to delete file"))
            /\ UNCHANGED <<files, broadcast>>
    /\ UNCHANGED <<now, tz, analyses, perf, trainingState, trainingProcess, processes,
                   datasets, sockets, users, patients, objectIds, disk,
                   app, auth, hook>>

------------------------------------------------------------------------------
(* PUT and DELETE /api/analysis/:id *)

\* req.params.id: BadId is a string that is no ObjectId, the others are the
\* ids documents have or can get
BadId == 0
AnalysisParams == 0..MaxAnalyses

\* request bodies of PUT: the fields they leave out are undefined
UpdateBodies ==
  { [status |-> "reviewed"],
    [confidence_score |-> 50],
    [condition_detected |-> "DME", severity_level |-> "mild"] }

\* updateData: the fields of the body that are not undefined
UpdateData(doc, body) ==
  LET a == IF "confidence_score" \in DOMAIN body
           THEN [doc EXCEPT !.confidence_score = body.confidence_score] ELSE doc
      b == IF "condition_detected" \in DOMAIN body
           THEN [a EXCEPT !.condition_detected = body.condition_detected] ELSE a
      c == IF "severity_level" \in DOMAIN body
           THEN [b EXCEPT !.severity_level = body.severity_level] ELSE b
  IN IF "status" \in DOMAIN body THEN [c EXCEPT !.status = body.status] ELSE c

\* RetinalAnalysis.findOne(query): the positions of the documents with this
\* _id and, for a doctor, this doctor_id
FindAnalysisUnscoped(A, id, token, roles) == {k \in 1..Len(A) : A[k].id = id}
FindAnalysis(A, id, token, roles) ==
  {k \in 1..Len(A) :
     /\ A[k].id = id
     /\ token.role \in roles => QueryEq(A[k].doctor_id, Str(token.userId))}

\* RetinalAnalysis.findByIdAndUpdate(analysisId, updateData)
findByIdAndUpdate(A, id, body) ==
  [k \in 1..Len(A) |-> IF A[k].id = id THEN UpdateData(A[k], body) ELSE A[k]]

\* RetinalAnalysis.findByIdAndDelete(analysisId)
RECURSIVE findByIdAndDelete(_, _)
findByIdAndDelete(A, id) ==
  IF A = <<>> THEN <<>>
  ELSE IF Head(A).id = id THEN Tail(A)
  ELSE <<Head(A)>> \o findByIdAndDelete(Tail(A), id)

\* the middleware of PUT and the call of RetinalAnalysis.findOne
PutAnalysisStart(tokens, ids, bodies) ==
  \E token \in tokens, id \in ids, body \in bodies :
    LET gate == Gate({"doctor"}, token) IN
    IF gate # 0
    THEN /\ last' = Response("putAnalysis", token, id, gate, 0, "none", GateBody(token))
         /\ UNCHANGED <<now, tz, analyses, perf, inflight, trainingState, trainingProcess,
                        processes, datasets, sockets, broadcast, users, patients, objectIds,
                   files, disk,
                   app, auth, hook>>
    ELSE /\ Len(inflight) < MaxInflight
         /\ inflight' = Append(inflight,
              [route |-> "putAnalysis", pc |-> "find", token |-> token,
               body |-> body, at |-> 0, id |-> id, found |-> 0, total |-> 0])
         /\ UNCHANGED <<now, tz, analyses, perf, last, trainingState, trainingProcess,
                        processes, datasets, sockets, broadcast, users, patients, objectIds,
                   files, disk,
                   app, auth, hook>>

\* findOne answers: a failed query or an id that is no ObjectId throws (500),
\* no analysis of the caller is 403, else findByIdAndUpdate is called
PutAnalysisFind(oks) ==
  \E i \in 1..Len(inflight), ok \in oks :
    LET c == inflight[i] IN
    /\ c.route = "putAnalysis" /\ c.pc = "find"
    /\ IF ~ok \/ c.id = BadId
       THEN /\ inflight' = RemoveAt(inflight, i)
            /\ last' = Response("putAnalysis", c.token, c.id, 500, 1, "none",
                                ErrorBody("Failed to update analysis"))
       ELSE IF FindAnalysis(analyses, c.id, c.token, {"doctor"}) = {}
       THEN /\ inflight' = RemoveAt(inflight, i)
            /\ last' = Response("putAnalysis", c.token, c.id, 403, 1, "none",
                                ErrorBody("Analysis not found or access denied"))
       ELSE /\ inflight' = [inflight EXCEPT ![i].pc = "update"]
            /\ UNCHANGED last
    /\ UNCHANGED <<now, tz, analyses, perf, trainingState, trainingProcess,
                   processes, datasets, sockets, broadcast, users, patients, objectIds,
                   files, disk,
                   app, auth, hook>>

\* findByIdAndUpdate answers; then broadcastUpdate('analysis_updated') and 200
PutAnalysisUpdate(oks) ==
  \E i \in 1..Len(inflight), ok \in oks :
    LET c == inflight[i] IN
    /\ c.route = "putAnalysis" /\ c.pc = "update"
    /\ inflight' = RemoveAt(inflight, i)
    /\ IF ok
       THEN /\ analyses' = findByIdAndUpdate(analyses, c.id, c.body)
            /\ broadcast' = broadcastUpdate("analysis_updated", Null)
            /\ last' = Response("putAnalysis", c.token, c.id, 200, 2, "analysis_updated",
                                [message |-> "Analysis updated successfully"])
       ELSE /\ last' = Response("putAnalysis", c.token, c.id, 500, 2, "none",
                                ErrorBody("Failed to update analysis"))
            /\ UNCHANGED <<analyses, broadcast>>
    /\ UNCHANGED <<now, tz, perf, trainingState, trainingProcess, processes, datasets,
                   sockets, users, patients, objectIds,
                   files, disk,
                   app, auth, hook>>

\* the middleware of DELETE and the call of RetinalAnalysis.findOne
DeleteAnalysisStart(tokens, ids) ==
  \E token \in tokens, id \in ids :
    LET gate == Gate({"doctor", "admin"}, token) IN
    IF gate # 0
    THEN /\ last' = Response("deleteAnalysis", token, id, gate, 0, "none", GateBody(token))
         /\ UNCHANGED <<now, tz, analyses, perf, inflight, trainingState, trainingProcess,
                        processes, datasets, sockets, broadcast, users, patients, objectIds,
                   files, disk,
                   app, auth, hook>>
    ELSE /\ Len(inflight) < MaxInflight
         /\ inflight' = Append(inflight,
              [route |-> "deleteAnalysis", pc |-> "find", token |-> token,
               body |-> NoBody, at |-> 0, id |-> id, found |-> 0, total |-> 0])
         /\ UNCHANGED <<now, tz, analyses, perf, last, trainingState, trainingProcess,
                        processes, datasets, sockets, broadcast, users, patients, objectIds,
                   files, disk,
                   app, auth, hook>>

\* findOne answers: 500, 403, or findByIdAndDelete is called
DeleteAnalysisFind(oks) ==
  \E i \in 1..Len(inflight), ok \in oks :
    LET c == inflight[i] IN
    /\ c.route = "deleteAnalysis" /\ c.pc = "find"
    /\ IF ~ok \/ c.id = BadId
       THEN /\ inflight' = RemoveAt(inflight, i)
            /\ last' = Response("deleteAnalysis", c.token, c.id, 500, 1, "none",
                                ErrorBody("Failed to delete analysis"))
       ELSE IF FindAnalysis(analyses, c.id, c.token, {"doctor"}) = {}
       THEN /\ inflight' = RemoveAt(inflight, i)
            /\ last' = Response("deleteAnalysis", c.token, c.id, 403, 1, "none",
                                ErrorBody("Analysis not found or access denied"))
       ELSE /\ inflight' = [inflight EXCEPT ![i].pc = "delete"]
            /\ UNCHANGED last
    /\ UNCHANGED <<now, tz, analyses, perf, trainingState, trainingProcess,
                   processes, datasets, sockets, broadcast, users, patients, objectIds,
                   files, disk,
                   app, auth, hook>>

\* findByIdAndDelete answers; then broadcastUpdate('analysis_deleted') and 200
DeleteAnalysisRemove(oks) ==
  \E i \in 1..Len(inflight), ok \in oks :
    LET c == inflight[i] IN
    /\ c.route = "deleteAnalysis" /\ c.pc = "delete"
    /\ inflight' = RemoveAt(inflight, i)
    /\ IF ok
       THEN /\ analyses' = findByIdAndDelete(analyses, c.id)
            /\ broadcast' = broadcastUpdate("analysis_deleted", Null)
            /\ last' = Response("deleteAnalysis", c.token, c.id, 200, 2, "analysis_deleted",
                                [message |-> "Analysis deleted successfully"])
       ELSE /\ last' = Response("deleteAnalysis", c.token, c.id, 500, 2, "none",
                                ErrorBody("Failed to delete analysis"))
            /\ UNCHANGED <<analyses, broadcast>>
    /\ UNCHANGED <<now, tz, perf, trainingState, trainingProcess, processes, datasets,
                   sockets, users, patients, objectIds,
                   files, disk,
                   app, auth, hook>>



------------------------------------------------------------------------------
(* GET /api/analysis/:id, /api/analysis/patient/:patientId, /api/analysis *)

\* .sort({ created_at: -1 }): the documents at the positions S, newest first
RECURSIVE NewestFirst(_, _)
NewestFirst(A, S) ==
  IF S = {} THEN <<>>
  ELSE LET m == CHOOSE i \in S :
                  \A j \in S : \/ A[i].created_at > A[j].created_at
                               \/ A[i].created_at = A[j].created_at /\ i <= j
       IN <<A[m]>> \o NewestFirst(A, S \ {m})

\* Patient.findOne({ user_id: req.user.userId })
PatientOfUser(userId) == {p \in Patients : QueryEq(p.user_id, Str(userId))}

\* the documents RetinalAnalysis.findOne(query) of GET /:id can return
VisibleAnalysis(A, id, token) ==
  {k \in 1..Len(A) :
     /\ A[k].id = id
     /\ token.role = "doctor" => QueryEq(A[k].doctor_id, Str(token.userId))
     /\ token.role = "patient" =>
          \E p \in PatientOfUser(token.userId) : A[k].patient_id = Oid(p.id)}

\* GET /:id: a patient without a Patient record is 404 before the query; an
\* id that is no ObjectId or a failed query is 500; no document is 404
GetAnalysis(tokens, ids, oks) ==
  \E token \in tokens, id \in ids, ok \in oks :
    LET gate == authenticateToken(token)
        found == VisibleAnalysis(analyses, id, token)
    IN
    /\ last' =
         IF gate # 0
         THEN Response("getAnalysis", token, id, gate, 0, "none", GateBody(token))
         ELSE IF token.role = "patient" /\ PatientOfUser(token.userId) = {}
         THEN Response("getAnalysis", token, id, 404, 1, "none",
                       ErrorBody("Analysis not found or access denied"))
         ELSE IF ~ok \/ id = BadId
         THEN Response("getAnalysis", token, id, 500, 1, "none",
                       ErrorBody("Failed to fetch analysis"))
         ELSE IF found = {}
         THEN Response("getAnalysis", token, id, 404, 1, "none",
                       ErrorBody("Analysis not found or access denied"))
         ELSE Response("getAnalysis", token, id, 200, 1, "none",
                       [analyses |-> <<analyses[Min(found)]>>])
    /\ UNCHANGED <<now, tz, analyses, perf, inflight, trainingState, trainingProcess,
                   processes, datasets, sockets, broadcast, users, patients, objectIds,
                   files, disk,
                   app, auth, hook>>

\* req.params.patientId
PatientParams == {"pt1", "pt2", "zz", "bad"}

\* GET /patient/:patientId: a doctor's query carries the caller's doctor_id;
\* a patient is checked against the Patient record (403); the analyses of the
\* query are returned newest first
GetPatientAnalyses(tokens, patientIds, oks) ==
  \E token \in tokens, patientId \in patientIds, ok \in oks :
    LET gate == authenticateToken(token)
        own == {p \in Patients : p.id = patientId /\ QueryEq(p.user_id, Str(token.userId))}
        found == {k \in 1..Len(analyses) :
                    /\ QueryEq(analyses[k].patient_id, Str(patientId))
                    /\ token.role = "doctor" =>
                         QueryEq(analyses[k].doctor_id, Str(token.userId))}
    IN
    /\ last' =
         IF gate # 0
         THEN Response("getPatientAnalyses", token, patientId, gate, 0, "none",
                       GateBody(token))
         ELSE IF ~ok \/ patientId \notin WellFormedIds
         THEN Response("getPatientAnalyses", token, patientId, 500, 1, "none",
                       ErrorBody("Failed to fetch patient analyses"))
         ELSE IF token.role = "patient" /\ own = {}
         THEN Response("getPatientAnalyses", token, patientId, 403, 1, "none",
                       ErrorBody("Access denied"))
         ELSE Response("getPatientAnalyses", token, patientId, 200, 1, "none",
                       [analyses |-> NewestFirst(analyses, found)])
    /\ UNCHANGED <<now, tz, analyses, perf, inflight, trainingState, trainingProcess,
                   processes, datasets, sockets, broadcast, users, patients, objectIds,
                   files, disk,
                   app, auth, hook>>

\* req.query.condition (Null: no filter); page and limit are left at 1 and 20
ConditionFilters == {Null, "CNV"}
PageLimit == 20

\* the query of GET /: the caller's doctor_id for a doctor, and the filter
ListedAnalyses(A, token, condition) ==
  {k \in 1..Len(A) :
     /\ token.role = "doctor" => QueryEq(A[k].doctor_id, Str(token.userId))
     /\ condition # Null => A[k].condition_detected = condition}

\* the middleware of GET / and the call of RetinalAnalysis.find
GetAnalysesStart(tokens, conditions) ==
  \E token \in tokens, condition \in conditions :
    LET gate == Gate({"doctor", "admin"}, token) IN
    IF gate # 0
    THEN /\ last' = Response("getAnalyses", token, Null, gate, 0, "none", GateBody(token))
         /\ UNCHANGED <<now, tz, analyses, perf, inflight, trainingState, trainingProcess,
                        processes, datasets, sockets, broadcast, users, patients, objectIds,
                   files, disk,
                   app, auth, hook>>
    ELSE /\ Len(inflight) < MaxInflight
         /\ inflight' = Append(inflight,
              [route |-> "getAnalyses", pc |-> "find", token |-> token,
               body |-> [condition |-> condition], got |-> <<>>])
         /\ UNCHANGED <<now, tz, analyses, perf, last, trainingState, trainingProcess,
                        processes, datasets, sockets, broadcast, users, patients, objectIds,
                   files, disk,
                   app, auth, hook>>

\* find answers with the first page, newest first; countDocuments is called
GetAnalysesFind(oks) ==
  \E i \in 1..Len(inflight), ok \in oks :
    LET c == inflight[i]
        all == NewestFirst(analyses, ListedAnalyses(analyses, c.token, c.body.condition))
    IN
    /\ c.route = "getAnalyses" /\ c.pc = "find"
    /\ IF ok
       THEN /\ inflight' = [inflight EXCEPT
                 ![i].pc = "count",
                 ![i].got = SubSeq(all, 1, Min({Len(all), PageLimit}))]
            /\ UNCHANGED last
       ELSE /\ inflight' = RemoveAt(inflight, i)
            /\ last' = Response("getAnalyses", c.token, Null, 500, 1, "none",
                                ErrorBody("Failed to fetch analyses"))
    /\ UNCHANGED <<now, tz, analyses, perf, trainingState, trainingProcess,
                   processes, datasets, sockets, broadcast, users, patients, objectIds,
                   files, disk,
                   app, auth, hook>>

\* countDocuments answers, then the page and the total are sent
GetAnalysesCount(oks) ==
  \E i \in 1..Len(inflight), ok \in oks :
    LET c == inflight[i] IN
    /\ c.route = "getAnalyses" /\ c.pc = "count"
    /\ inflight' = RemoveAt(inflight, i)
    /\ last' =
         IF ok
         THEN Response("getAnalyses", c.token, Null, 200, 2, "none",
                [analyses |-> c.got,
                 total |-> Cardinality(ListedAnalyses(analyses, c.token, c.body.condition))])
         ELSE Response("getAnalyses", c.token, Null, 500, 2, "none",
                       ErrorBody("Failed to fetch analyses"))
    /\ UNCHANGED <<now, tz, analyses, perf, trainingState, trainingProcess,
                   processes, datasets, sockets, broadcast, users, patients, objectIds,
                   files, disk,
                   app, auth, hook>>

------------------------------------------------------------------------------
(* Aggregation *)

\* the trailing windows: setDate(getDate() - 30), setMonth(getMonth() - 12)
RecentDays == 30
TrendMonths == 12
\* days of a calendar month, taken as equal
MonthDays == 30

ThirtyDaysAgo(t) == t - RecentDays * DayLen
TwelveMonthsAgo(t) == t - TrendMonths * MonthDays * DayLen
\* { year: $year, month: $month } of a date, as one number
MonthOf(t) == t \div (MonthDays * DayLen)

\* the confidence buckets of /ai-performance, in hundredths
HighConfidence == 90
MediumConfidence == 70

Idx(A) == 1..Len(A)

RECURSIVE SumOf(_, _)
SumOf(f, S) ==
  IF S = {} THEN 0
  ELSE LET x == CHOOSE y \in S : TRUE IN f[x] + SumOf(f, S \ {x})

Scores(A) == [i \in Idx(A) |-> A[i].confidence_score]

\* { $group: { _id: key, count: { $sum: 1 } } }: one group per distinct key
GroupCount(S, key) ==
  { [key |-> k, count |-> Cardinality({i \in S : key[i] = k})] : k \in {key[i] : i \in S} }

\* { $sort: { count: -1 } }: the groups as a list, largest count first (the
\* order among equal counts is the database's)
RECURSIVE SortDesc(_)
SortDesc(G) ==
  IF G = {} THEN <<>>
  ELSE LET m == CHOOSE x \in G : \A y \in G : x.count >= y.count
       IN <<m>> \o SortDesc(G \ {m})

\* $avg, kept as the sum and the number of values
Avg(A, S) == [sum |-> SumOf(Scores(A), S), n |-> Cardinality(S)]

\* parseFloat(average || 0).toFixed(4) of an average of hundredths, in
\* ten-thousandths; '0.0000' when the pipeline returned no group
AverageConfidence(A, S) ==
  IF S = {} THEN 0
  ELSE (200 * SumOf(Scores(A), S) + Cardinality(S)) \div (2 * Cardinality(S))

------------------------------------------------------------------------------
(* GET /api/analytics/overview *)

\* the role-derived filter of countDocuments: doctor_id is cast
ScopeUnfiltered(token, doc) == TRUE
ScopeQuery(token, doc) ==
  token.role = "doctor" => QueryEq(doc.doctor_id, Str(token.userId))

\* the same filter written into the $match of a pipeline: not cast
ScopePipeline(token, doc) ==
  token.role = "doctor" => PipelineEq(doc.doctor_id, Str(token.userId))

\* topDoctors: $group by doctor_id, $lookup of the user, $match of role
\* 'doctor', $sort by analysis_count (count) descending, $limit 10
TopDoctorsLimit == 10
TopDoctorsUnlimited(A) ==
  LET groups == GroupCount(Idx(A), [i \in Idx(A) |-> A[i].doctor_id])
  IN SortDesc({g \in groups : \E u \in users : Oid(u.id) = g.key /\ u.role = "doctor"})
TopDoctors(A) ==
  LET groups == GroupCount(Idx(A), [i \in Idx(A) |-> A[i].doctor_id])
      sorted ==
        SortDesc({g \in groups : \E u \in users : Oid(u.id) = g.key /\ u.role = "doctor"})
  IN SubSeq(sorted, 1, Min({Len(sorted), TopDoctorsLimit}))

\* AIModelPerformance grouped by model_version
ModelPerformance(rows) ==
  { [model_version |-> v,
     total_predictions |->
       SumOf([i \in Idx(rows) |-> rows[i].total_predictions],
             {i \in Idx(rows) : rows[i].model_version = v}),
     last_evaluation |->
       Max({rows[i].evaluation_date : i \in {j \in Idx(rows) : rows[j].model_version = v}})]
    : v \in {rows[i].model_version : i \in Idx(rows)} }

OverviewCommon(token, A, P, t) ==
  [totalPatients |-> Cardinality({p \in P : ScopeQuery(token, p)}),
   totalAnalyses |-> Cardinality({i \in Idx(A) : ScopeQuery(token, A[i])}),
   recentAnalyses |->
     Cardinality({i \in Idx(A) :
                    A[i].created_at >= ThirtyDaysAgo(t) /\ ScopeQuery(token, A[i])}),
   conditionDistribution |->
     SortDesc(GroupCount({i \in Idx(A) :
                            A[i].condition_detected # Null /\ ScopePipeline(token, A[i])},
                         [i \in Idx(A) |-> A[i].condition_detected])),
   severityDistribution |->
     SortDesc(GroupCount({i \in Idx(A) :
                            A[i].severity_level # Null /\ ScopePipeline(token, A[i])},
                         [i \in Idx(A) |-> A[i].severity_level])),
   monthlyTrends |->
     GroupCount({i \in Idx(A) :
                   A[i].created_at >= TwelveMonthsAgo(t) /\ ScopePipeline(token, A[i])},
                [i \in Idx(A) |-> MonthOf(A[i].created_at)]),
   averageConfidence |->
     AverageConfidence(A, {i \in Idx(A) :
                             A[i].confidence_score # NullNum /\ ScopePipeline(token, A[i])})]

\* the body of a 200: the seven metrics, and for an admin the two more
OverviewBody(token, A, P, rows, t) ==
  IF token.role = "admin"
  THEN [common |-> OverviewCommon(token, A, P, t),
        topDoctors |-> TopDoctors(A),
        aiModelPerformance |-> ModelPerformance(rows)]
  ELSE [common |-> OverviewCommon(token, A, P, t)]

\* the queries the handler awaits, in order: seven, and two more for an admin
OverviewQueries(token) == IF token.role = "admin" THEN 9 ELSE 7

\* which awaited query fails, if any (0: none)
FailPoints == 0..2

\* the handler after the middleware
OverviewAnalytics(token, failAt, A, P, rows, t) ==
  IF failAt \in 1..OverviewQueries(token)
  THEN Caught("overview", token, Null, failAt, "Failed to fetch analytics overview")
  ELSE Response("overview", token, Null, 200, OverviewQueries(token), "none",
                OverviewBody(token, A, P, rows, t))

GetOverview ==
  \E token \in Tokens, failAt \in FailPoints :
    LET gate == Gate({"admin", "doctor"}, token) IN
    /\ last' =
         IF gate # 0
         THEN Response("overview", token, Null, gate, 0, "none", GateBody(token))
         ELSE OverviewAnalytics(token, failAt, analyses, Patients, perf, now)
    /\ UNCHANGED <<now, tz, analyses, perf, inflight, trainingState, trainingProcess, processes, datasets, sockets, broadcast,
                    users, patients, objectIds,
                   files, disk,
                   app, auth, hook>>


\* the result of the k-th awaited query of the handler, on the collections as
\* they are when it runs
OverviewQuery(k, token, A, P, rows, t) ==
  LET body == OverviewBody(token, A, P, rows, t) IN
  CASE k = 1 -> body.common.totalPatients
    [] k = 2 -> body.common.totalAnalyses
    [] k = 3 -> body.common.recentAnalyses
    [] k = 4 -> body.common.conditionDistribution
    [] k = 5 -> body.common.severityDistribution
    [] k = 6 -> body.common.monthlyTrends
    [] k = 7 -> body.common.averageConfidence
    [] k = 8 -> body.topDoctors
    [] k = 9 -> body.aiModelPerformance

\* the analytics object once every query has answered
OverviewCollected(token, got) ==
  LET common == [totalPatients |-> got[1], totalAnalyses |-> got[2],
                 recentAnalyses |-> got[3], conditionDistribution |-> got[4],
                 severityDistribution |-> got[5], monthlyTrends |-> got[6],
                 averageConfidence |-> got[7]]
  IN IF token.role = "admin"
     THEN [common |-> common, topDoctors |-> got[8], aiModelPerformance |-> got[9]]
     ELSE [common |-> common]

\* the middleware and the call of the first query
OverviewStart(tokens) ==
  \E token \in tokens :
    LET gate == Gate({"admin", "doctor"}, token) IN
    IF gate # 0
    THEN /\ last' = Response("overview", token, Null, gate, 0, "none", GateBody(token))
         /\ UNCHANGED <<now, tz, analyses, perf, inflight, trainingState, trainingProcess,
                        processes, datasets, sockets, broadcast, users, patients, objectIds,
                   files, disk,
                   app, auth, hook>>
    ELSE /\ Len(inflight) < MaxInflight
         /\ inflight' = Append(inflight,
              [route |-> "overview", pc |-> 1, token |-> token, got |-> <<>>])
         /\ UNCHANGED <<now, tz, analyses, perf, last, trainingState, trainingProcess,
                        processes, datasets, sockets, broadcast, users, patients, objectIds,
                   files, disk,
                   app, auth, hook>>

\* the awaited query answers: its result is kept and the next query is
\* called, or after the last one the analytics are sent; a failure is caught
OverviewAwait(oks) ==
  \E i \in 1..Len(inflight), ok \in oks :
    LET c == inflight[i]
        got == Append(c.got, OverviewQuery(c.pc, c.token, analyses, Patients, perf, now))
    IN
    /\ c.route = "overview"
    /\ IF ~ok
       THEN /\ inflight' = RemoveAt(inflight, i)
            /\ last' = Caught("overview", c.token, Null, c.pc,
                              "Failed to fetch analytics overview")
       ELSE IF c.pc < OverviewQueries(c.token)
       THEN /\ inflight' = [inflight EXCEPT ![i].pc = c.pc + 1, ![i].got = got]
            /\ UNCHANGED last
       ELSE /\ inflight' = RemoveAt(inflight, i)
            /\ last' = Response("overview", c.token, Null, 200, OverviewQueries(c.token),
                                "none", OverviewCollected(c.token, got))
    /\ UNCHANGED <<now, tz, analyses, perf, trainingState, trainingProcess,
                   processes, datasets, sockets, broadcast, users, patients, objectIds,
                   files, disk,
                   app, auth, hook>>

------------------------------------------------------------------------------
(* GET /api/analytics/doctor/:doctorId? *)

\* req.params.doctorId: absent, the id of an account, a well-formed id of no
\* account, or a string that is no ObjectId
DoctorParams == {Null, "a1", "d1", "d2", "p1", "zz", "bad"}

\* doctorId after the default: the caller's id when the parameter is absent
\* (reached by a doctor only)
EffectiveNoDefault(token, param) == param
EffectiveDoctorId(token, param) == IF param = Null THEN token.userId ELSE param

\* the permission check: a doctor may name no id but their own
DeniedInverted(token, doctorId) == token.role = "doctor" /\ doctorId = token.userId
DeniedToDoctor(token, doctorId) == token.role = "doctor" /\ doctorId # token.userId

\* User.findOne({ _id: doctorId, role: 'doctor' })
FindAnyRole(doctorId) == {u \in Users : QueryEq(Oid(u.id), Str(doctorId))}
FindDoctor(doctorId) == {u \in Users : QueryEq(Oid(u.id), Str(doctorId)) /\ u.role = "doctor"}

\* the $group of performanceMetrics; {} when the $match kept nothing
PerformanceMetrics(A, S) ==
  IF S = {} THEN NoBody
  ELSE [total_analyses |-> Cardinality(S),
        avg_confidence |-> Avg(A, {i \in S : A[i].confidence_score # NullNum}),
        severe_cases |-> Cardinality({i \in S : A[i].severity_level = "severe"}),
        moderate_cases |-> Cardinality({i \in S : A[i].severity_level = "moderate"}),
        mild_cases |-> Cardinality({i \in S : A[i].severity_level = "mild"})]

\* the body of a 200; the counts and find cast doctorId, the pipelines do not
DoctorBody(doctorId, A, t) ==
  LET inQuery == {i \in Idx(A) : QueryEq(A[i].doctor_id, Str(doctorId))}
      inPipeline == {i \in Idx(A) : PipelineEq(A[i].doctor_id, Str(doctorId))}
  IN [doctor |-> doctorId,
      totalPatients |->
        Cardinality({p \in Patients : QueryEq(p.doctor_id, Str(doctorId))}),
      totalAnalyses |-> Cardinality(inQuery),
      recentAnalyses |->
        Cardinality({i \in inQuery : A[i].created_at >= ThirtyDaysAgo(t)}),
      conditionDistribution |->
        SortDesc(GroupCount({i \in inPipeline : A[i].condition_detected # Null},
                            [i \in Idx(A) |-> A[i].condition_detected])),
      averageConfidence |->
        AverageConfidence(A, {i \in inPipeline : A[i].confidence_score # NullNum}),
      dailyAnalyses |->
        GroupCount({i \in inPipeline : A[i].created_at >= ThirtyDaysAgo(t)},
                   [i \in Idx(A) |-> UtcDay(A[i].created_at)]),
      recentPatients |->
        {p.id : p \in {q \in Patients : QueryEq(q.doctor_id, Str(doctorId))}},
      performanceMetrics |-> PerformanceMetrics(A, inPipeline)]

\* the queries of the handler: findOne, then eight more
DoctorQueries == 9

\* the handler after authenticateToken
DoctorAnalytics(token, param, failAt, A, t) ==
  LET doctorId == EffectiveDoctorId(token, param) IN
  IF param = Null /\ token.role # "doctor"
  THEN Response("doctor", token, param, 400, 0, "none",
                ErrorBody("Doctor ID is required for non-doctor users"))
  ELSE IF DeniedToDoctor(token, doctorId)
  THEN Response("doctor", token, param, 403, 0, "none",
                ErrorBody("Access denied to other doctor analytics"))
  ELSE IF failAt = 1 \/ doctorId \notin WellFormedIds
  THEN Caught("doctor", token, param, 1, "Failed to fetch doctor analytics")
  ELSE IF FindDoctor(doctorId) = {}
  THEN Response("doctor", token, param, 404, 1, "none", ErrorBody("Doctor not found"))
  ELSE IF failAt \in 2..DoctorQueries
  THEN Caught("doctor", token, param, failAt, "Failed to fetch doctor analytics")
  ELSE Response("doctor", token, param, 200, DoctorQueries, "none",
                DoctorBody(doctorId, A, t))

GetDoctor ==
  \E token \in Tokens, param \in DoctorParams, failAt \in FailPoints :
    /\ last' =
         IF authenticateToken(token) # 0
         THEN Response("doctor", token, param, authenticateToken(token), 0, "none",
                       GateBody(token))
         ELSE DoctorAnalytics(token, param, failAt, analyses, now)
    /\ UNCHANGED <<now, tz, analyses, perf, inflight, trainingState, trainingProcess, processes, datasets, sockets, broadcast,
                    users, patients, objectIds,
                   files, disk,
                   app, auth, hook>>

------------------------------------------------------------------------------
(* GET /api/analytics/ai-performance *)

\* the $cond of each bucket
HighBucket(score) == score >= HighConfidence
MediumOpenBelow(score) == score > MediumConfidence /\ score < HighConfidence
MediumBucket(score) == score >= MediumConfidence /\ score < HighConfidence
LowBucket(score) == score < MediumConfidence

\* overallStats: the analyses with a confidence score, in three buckets;
\* {} when there is none
OverallPerformance(A) ==
  LET S == {i \in Idx(A) : A[i].confidence_score # NullNum} IN
  IF S = {} THEN NoBody
  ELSE [total_predictions |-> Cardinality(S),
        avg_confidence |-> Avg(A, S),
        high_confidence |->
          Cardinality({i \in S : HighBucket(A[i].confidence_score)}),
        medium_confidence |->
          Cardinality({i \in S : MediumBucket(A[i].confidence_score)}),
        low_confidence |->
          Cardinality({i \in S : LowBucket(A[i].confidence_score)})]

\* conditionPerformance: per condition, over the analyses with both fields
ConditionPerformance(A) ==
  LET S == {i \in Idx(A) :
              A[i].condition_detected # Null /\ A[i].confidence_score # NullNum}
      Of(k) == {i \in S : A[i].condition_detected = k}
  IN { [condition_detected |-> k,
        total_cases |-> Cardinality(Of(k)),
        avg_confidence |-> Avg(A, Of(k)),
        min_confidence |-> Min({A[i].confidence_score : i \in Of(k)}),
        max_confidence |-> Max({A[i].confidence_score : i \in Of(k)})]
       : k \in {A[i].condition_detected : i \in S} }

\* monthlyPerformance: per month of the last twelve
MonthlyPerformance(A, t) ==
  LET S == {i \in Idx(A) :
              A[i].created_at >= TwelveMonthsAgo(t) /\ A[i].confidence_score # NullNum}
      Of(m) == {i \in S : MonthOf(A[i].created_at) = m}
  IN { [month |-> m, total_predictions |-> Cardinality(Of(m)),
        avg_confidence |-> Avg(A, Of(m))]
       : m \in {MonthOf(A[i].created_at) : i \in S} }

AiPerformanceBody(A, rows, t) ==
  [overallPerformance |-> OverallPerformance(A),
   conditionPerformance |-> ConditionPerformance(A),
   monthlyTrends |-> MonthlyPerformance(A, t),
   modelVersions |-> {rows[i] : i \in Idx(rows)}]

AiPerformanceQueries == 4

\* the handler after the middleware
AiPerformanceAnalytics(token, failAt, A, rows, t) ==
  IF failAt \in 1..AiPerformanceQueries
  THEN Caught("aiPerformance", token, Null, failAt,
              "Failed to fetch AI performance analytics")
  ELSE Response("aiPerformance", token, Null, 200, AiPerformanceQueries, "none",
                AiPerformanceBody(A, rows, t))

GetAiPerformance ==
  \E token \in Tokens, failAt \in FailPoints :
    LET gate == Gate({"admin"}, token) IN
    /\ last' =
         IF gate # 0
         THEN Response("aiPerformance", token, Null, gate, 0, "none", GateBody(token))
         ELSE AiPerformanceAnalytics(token, failAt, analyses, perf, now)
    /\ UNCHANGED <<now, tz, analyses, perf, inflight, trainingState, trainingProcess, processes, datasets, sockets, broadcast,
                    users, patients, objectIds,
                   files, disk,
                   app, auth, hook>>

------------------------------------------------------------------------------
(* GET /api/analytics/patients *)

\* matchStage of the pipelines (not cast) and of Patient.find (cast)
PatientsBody(token, A, t) ==
  LET inPipeline == {p \in Patients : ScopePipeline(token, p)}
      inQuery == {p \in Patients : ScopeQuery(token, p)}
  IN [registrationTrends |->
        { [month |-> m,
           new_patients |->
             Cardinality({p \in inPipeline :
                            p.created_at >= TwelveMonthsAgo(t) /\ MonthOf(p.created_at) = m})]
          : m \in {MonthOf(p.created_at) :
                     p \in {q \in inPipeline : q.created_at >= TwelveMonthsAgo(t)}} },
      analysisStats |->
        [total_patients |-> Cardinality(inPipeline),
         patients_with_analysis |->
           Cardinality({p \in inPipeline : \E i \in Idx(A) : A[i].patient_id = Oid(p.id)})],
      recentPatients |-> {p.id : p \in inQuery}]

PatientsQueries == 5

\* the handler after the middleware
PatientsAnalytics(token, failAt, A, t) ==
  IF failAt \in 1..PatientsQueries
  THEN Caught("patients", token, Null, failAt, "Failed to fetch patient analytics")
  ELSE Response("patients", token, Null, 200, PatientsQueries, "none",
                PatientsBody(token, A, t))

GetPatients ==
  \E token \in Tokens, failAt \in FailPoints :
    LET gate == Gate({"admin", "doctor"}, token) IN
    /\ last' =
         IF gate # 0
         THEN Response("patients", token, Null, gate, 0, "none", GateBody(token))
         ELSE PatientsAnalytics(token, failAt, analyses, now)
    /\ UNCHANGED <<now, tz, analyses, perf, inflight, trainingState, trainingProcess, processes, datasets, sockets, broadcast,
                    users, patients, objectIds,
                   files, disk,
                   app, auth, hook>>

------------------------------------------------------------------------------
(* /api/model-training: mounted with app.use and no middleware, so no       *)
(* handler below looks at the token the request carries                     *)

\* the fields of the module-level trainingState the routes branch on
IdleTraining == [isTraining |-> FALSE, status |-> "idle"]

\* req.body.datasetPath: absent, a path naming the demo, a path of a real
\* dataset, or a value that is no string
DatasetPaths == {Null, "demo", "data", "nonstring"}

\* a spawned python process: whether its stdout, stderr and close handlers
\* were attached, whether kill() has signalled it, whether it has closed
NewProcess(handlers) == [handlers |-> handlers, killed |-> FALSE, closed |-> FALSE]

\* GET /status
TrainingStatus ==
  \E token \in Tokens :
    /\ last' = Response("trainingStatus", token, Null, 200, 0, "none", trainingState)
    /\ UNCHANGED <<now, tz, analyses, perf, inflight, trainingState, trainingProcess,
                   processes, datasets, sockets, broadcast, users, patients, objectIds,
                   files, disk,
                   app, auth, hook>>

\* POST /start: 400 while isTraining or without datasetPath; else the state is
\* reset to 'starting' and python is spawned. datasetPath.includes throws for
\* a non-string before the spawn, and writing the fallback script can throw
\* after it, before the handlers are attached and the process is stored: the
\* catch sets status 'error', isTraining false and answers 500
TrainingStart ==
  \E token \in Tokens, datasetPath \in DatasetPaths, writeOk \in BOOLEAN :
    IF trainingState.isTraining
    THEN /\ last' = Response("trainingStart", token, Null, 400, 0, "none",
                             ErrorBody("Training is already in progress"))
         /\ UNCHANGED <<now, tz, analyses, perf, inflight, trainingState, trainingProcess,
                        processes, datasets, sockets, broadcast, users, patients, objectIds,
                   files, disk,
                   app, auth, hook>>
    ELSE IF datasetPath = Null
    THEN /\ last' = Response("trainingStart", token, Null, 400, 0, "none",
                             ErrorBody("Dataset path is required"))
         /\ UNCHANGED <<now, tz, analyses, perf, inflight, trainingState, trainingProcess,
                        processes, datasets, sockets, broadcast, users, patients, objectIds,
                   files, disk,
                   app, auth, hook>>
    ELSE IF datasetPath = "nonstring"
    THEN /\ trainingState' = [isTraining |-> FALSE, status |-> "error"]
         /\ last' = Response("trainingStart", token, Null, 500, 0, "log", NoBody)
         /\ UNCHANGED <<now, tz, analyses, perf, inflight, trainingProcess, processes,
                        datasets, sockets, broadcast, users, patients, objectIds,
                   files, disk,
                   app, auth, hook>>
    ELSE IF datasetPath = "data" /\ ~writeOk
    THEN /\ Len(processes) < MaxProcs
         /\ processes' = Append(processes, NewProcess(FALSE))
         /\ trainingState' = [isTraining |-> FALSE, status |-> "error"]
         /\ last' = Response("trainingStart", token, Null, 500, 0, "log", NoBody)
         /\ UNCHANGED <<now, tz, analyses, perf, inflight, trainingProcess, datasets, sockets, broadcast,
                    users, patients, objectIds,
                   files, disk,
                   app, auth, hook>>
    ELSE /\ Len(processes) < MaxProcs
         /\ processes' = Append(processes, NewProcess(TRUE))
         /\ trainingProcess' = Len(processes) + 1
         /\ trainingState' = [isTraining |-> TRUE, status |-> "starting"]
         /\ last' = Response("trainingStart", token, Null, 200, 0, "log", trainingState')
         /\ UNCHANGED <<now, tz, analyses, perf, inflight, datasets, sockets, broadcast,
                    users, patients, objectIds,
                   files, disk,
                   app, auth, hook>>

\* POST /stop: SIGTERM to the stored process unless it is already killed;
\* status 'stopped', isTraining false
TrainingStop ==
  \E token \in Tokens :
    /\ processes' =
         IF trainingProcess # 0 /\ ~processes[trainingProcess].killed
         THEN [processes EXCEPT ![trainingProcess].killed = TRUE]
         ELSE processes
    /\ trainingState' = [isTraining |-> FALSE, status |-> "stopped"]
    /\ last' = Response("trainingStop", token, Null, 200, 0, "training_stopped", NoBody)
    /\ UNCHANGED <<now, tz, analyses, perf, inflight, trainingProcess, datasets, sockets, broadcast,
                    users, patients, objectIds,
                   files, disk,
                   app, auth, hook>>

\* stdout 'data' with PROGRESS_UPDATE of type epoch_end
ProcessStdout ==
  \E i \in 1..Len(processes) :
    /\ ~processes[i].closed /\ processes[i].handlers
    /\ trainingState' = [trainingState EXCEPT !.status = "training"]
    /\ UNCHANGED <<now, tz, analyses, perf, inflight, last, trainingProcess, processes,
                   datasets, sockets, broadcast, users, patients, objectIds,
                   files, disk,
                   app, auth, hook>>

\* stderr 'data' with TRAINING_ERROR
ProcessStderr ==
  \E i \in 1..Len(processes) :
    /\ ~processes[i].closed /\ processes[i].handlers
    /\ trainingState' = [trainingState EXCEPT !.status = "error"]
    /\ UNCHANGED <<now, tz, analyses, perf, inflight, last, trainingProcess, processes,
                   datasets, sockets, broadcast, users, patients, objectIds,
                   files, disk,
                   app, auth, hook>>

\* 'close': exit code 0 is 'completed', any other 'error'; isTraining false.
\* A process without handlers closes unnoticed
ProcessClose ==
  \E i \in 1..Len(processes), code \in {0, 1} :
    /\ ~processes[i].closed
    /\ processes' = [processes EXCEPT ![i].closed = TRUE]
    /\ trainingState' =
         IF ~processes[i].handlers THEN trainingState
         ELSE [isTraining |-> FALSE,
               status |-> IF code = 0 THEN "completed" ELSE "error"]
    /\ UNCHANGED <<now, tz, analyses, perf, inflight, last, trainingProcess, datasets, sockets, broadcast,
                    users, patients, objectIds,
                   files, disk,
                   app, auth, hook>>

\* the dataset field of the multipart body: absent, an archive, another file
DatasetFiles == {Null, "zip", "txt"}

\* POST /dataset/upload: multer stores an archive before the handler runs and
\* refuses another file type (the error middleware answers 500); the handler
\* answers 400 without a file, else extracts the archive (500 when that fails)
DatasetUpload ==
  \E token \in Tokens, file \in DatasetFiles, extractOk \in BOOLEAN :
    IF file = "txt"
    THEN /\ last' = Response("datasetUpload", token, Null, 500, 0, "none",
                             ErrorBody("Internal server error"))
         /\ UNCHANGED <<now, tz, analyses, perf, inflight, trainingState, trainingProcess,
                        processes, datasets, sockets, broadcast, users, patients, objectIds,
                   files, disk,
                   app, auth, hook>>
    ELSE IF file = Null
    THEN /\ last' = Response("datasetUpload", token, Null, 400, 0, "none",
                             ErrorBody("No dataset file uploaded"))
         /\ UNCHANGED <<now, tz, analyses, perf, inflight, trainingState, trainingProcess,
                        processes, datasets, sockets, broadcast, users, patients, objectIds,
                   files, disk,
                   app, auth, hook>>
    ELSE /\ datasets < MaxDatasets
         /\ datasets' = datasets + 1
         /\ last' = IF extractOk
                    THEN Response("datasetUpload", token, Null, 200, 0, "none", NoBody)
                    ELSE Response("datasetUpload", token, Null, 500, 0, "none",
                                  ErrorBody("Failed to extract dataset"))
         /\ UNCHANGED <<now, tz, analyses, perf, inflight, trainingState, trainingProcess,
                        processes, sockets, broadcast, users, patients, objectIds,
                   files, disk,
                   app, auth, hook>>

------------------------------------------------------------------------------
(* App.tsx: the page switch of the single-page frontend *)

\* a user object stands for its role; Null is the null user
AppUsers == {Null, "doctor", "patient", "admin", "other"}

\* the values navigateTo is called with, and one that names no page
Pages ==
  {"landing", "login", "signup", "doctor", "patient", "admin", "about", "features",
   "chatbot", "doctors", "education", "contact", "unknown"}

\* the component each case of the switch returns
ComponentOf(page) ==
  CASE page = "login" -> "LoginPage"
    [] page = "signup" -> "SignupPage"
    [] page = "doctor" -> "FundusAnalysis"
    [] page = "patient" -> "PatientDashboard"
    [] page = "admin" -> "AdminDashboard"
    [] page = "about" -> "AboutPage"
    [] page = "features" -> "FeaturesPage"
    [] page = "chatbot" -> "AIAssistantPage"
    [] page = "doctors" -> "DoctorDirectory"
    [] page \in {"education", "contact"} -> "PlaceholderPage"
    [] OTHER -> "LandingPage"

\* renderContent: what it returns, and the page it sets while rendering
renderContentAnyUser(user, currentPage) ==
  IF currentPage \in {"doctor", "patient", "admin"} /\ user = Null
  THEN [out |-> Null, setCurrentPage |-> "login"]
  ELSE [out |-> ComponentOf(currentPage), setCurrentPage |-> Null]
renderContent(user, currentPage) ==
  IF currentPage \in {"doctor", "patient", "admin"} /\ (user = Null \/ user # currentPage)
  THEN [out |-> Null, setCurrentPage |-> "login"]
  ELSE [out |-> ComponentOf(currentPage), setCurrentPage |-> Null]

\* the renders React runs for one state: a render that sets the page is
\* followed by a render of the new state
RECURSIVE Commit(_, _)
Commit(user, currentPage) ==
  LET r == renderContent(user, currentPage)
      this == [user |-> user, page |-> currentPage, out |-> r.out]
  IN IF r.setCurrentPage = Null THEN <<this>>
     ELSE <<this>> \o Commit(user, r.setCurrentPage)

\* setUser / setCurrentPage calls of one callback. Inside a React event
\* handler, and everywhere under automatic batching, they are committed
\* together; in a promise callback without it each call renders at once
RECURSIVE SetStates(_, _, _)
SetStates(state, calls, batched) ==
  IF calls = <<>>
  THEN IF batched
       THEN [state EXCEPT !.renders = Commit(state.user, state.currentPage)]
       ELSE state
  ELSE LET call == Head(calls)
           set == IF call.hook = "user"
                  THEN [state EXCEPT !.user = call.value]
                  ELSE [state EXCEPT !.currentPage = call.value]
           rs == Commit(set.user, set.currentPage)
       IN IF batched THEN SetStates(set, Tail(calls), batched)
          ELSE SetStates([user |-> set.user, currentPage |-> rs[Len(rs)].page,
                          renders |-> state.renders \o rs],
                         Tail(calls), batched)

\* the calls an event makes, starting from an empty list of renders
Event(calls, batched) ==
  LET done == SetStates([app EXCEPT !.renders = <<>>], calls, batched)
  IN [done EXCEPT !.currentPage = done.renders[Len(done.renders)].page]

SetUser(u) == [hook |-> "user", value |-> u]
SetCurrentPage(page) == [hook |-> "page", value |-> page]

\* the app after initializeApp: user is authService.getCurrentUser(), the
\* page is 'landing'
AppOf(user) ==
  [user |-> user, currentPage |-> "landing", renders |-> Commit(user, "landing")]
NoApp == AppOf(Null)

\* the callback given to authService.onAuthChange
onAuthChange(newUser, isAuthenticated) ==
  <<SetUser(newUser)>> \o
  (IF isAuthenticated /\ newUser # Null
   THEN IF newUser \in {"doctor", "patient", "admin"}
        THEN <<SetCurrentPage(newUser)>> ELSE <<>>
   ELSE <<SetCurrentPage("landing")>>)

\* navigateTo, called from a click handler of a page
AppNavigateTo ==
  \E page \in Pages :
    /\ app' = Event(<<SetCurrentPage(page)>>, TRUE)
    /\ UNCHANGED <<now, tz, analyses, perf, inflight, last, trainingState, trainingProcess,
                   processes, datasets, sockets, broadcast, users, patients, objectIds,
                   files, disk, auth, hook>>

\* an auth change that no handler of the app started
AppAuthChange ==
  \E newUser \in AppUsers, isAuthenticated \in BOOLEAN, batched \in BOOLEAN :
    /\ app' = Event(onAuthChange(newUser, isAuthenticated), batched)
    /\ UNCHANGED <<now, tz, analyses, perf, inflight, last, trainingState, trainingProcess,
                   processes, datasets, sockets, broadcast, users, patients, objectIds,
                   files, disk, auth, hook>>

\* handleLogin: authService.login notifies the listener when it succeeds;
\* the handler itself sets nothing
AppLogin ==
  \E newUser \in AppUsers \ {Null}, success \in BOOLEAN, batched \in BOOLEAN :
    /\ app' = IF success THEN Event(onAuthChange(newUser, TRUE), batched) ELSE app
    /\ UNCHANGED <<now, tz, analyses, perf, inflight, last, trainingState, trainingProcess,
                   processes, datasets, sockets, broadcast, users, patients, objectIds,
                   files, disk, auth, hook>>

\* handleLogout: authService.logout notifies the listener with (null, false),
\* then the handler sets user null and the page 'landing'
AppLogout ==
  \E batched \in BOOLEAN :
    /\ app' = Event(onAuthChange(Null, FALSE)
                      \o <<SetUser(Null), SetCurrentPage("landing")>>, batched)
    /\ UNCHANGED <<now, tz, analyses, perf, inflight, last, trainingState, trainingProcess,
                   processes, datasets, sockets, broadcast, users, patients, objectIds,
                   files, disk, auth, hook>>


------------------------------------------------------------------------------
(* authService.js: the AuthService singleton of the frontend *)

\* suspended calls of signIn, signOut and validateSession at a time
MaxCalls == 2
\* callbacks registered with onAuthChange
MaxListeners == 2

\* the accounts the backend knows; the session of an account is its token
Accounts == {"ann", "bob"}
TokenFor(user) == "token-" \o user

\* the singleton after initializeAuth without a stored session: currentUser,
\* currentSession, the two localStorage keys, the number of authCallbacks, the
\* calls the latest notifyAuthChange made, the suspended calls, what the
\* latest finished call returned, and whether a signOut has finished and no
\* call was started since
NoAuth ==
  [currentUser |-> Null, currentSession |-> Null,
   retinal_ai_token |-> Null, retinal_ai_user |-> Null,
   authCallbacks |-> 0, calls |-> <<>>, ops |-> <<>>,
   result |-> [op |-> "none", value |-> Null], signedOut |-> FALSE]

\* initializeAuth with both keys in localStorage
RestoredAuth(user) ==
  [NoAuth EXCEPT !.currentUser = user, !.currentSession = TokenFor(user),
                 !.retinal_ai_token = TokenFor(user), !.retinal_ai_user = user]

\* clearSession
clearSessionMemoryOnly(a) ==
  [a EXCEPT !.currentUser = Null, !.currentSession = Null]
clearSession(a) ==
  [a EXCEPT !.currentUser = Null, !.currentSession = Null,
            !.retinal_ai_token = Null, !.retinal_ai_user = Null]

\* getCurrentUser: the user in memory, else the one restored from
\* localStorage when both keys are there; the service after the call, whose
\* currentUser is the value returned
getCurrentUser(a) ==
  IF a.currentUser # Null THEN a
  ELSE IF a.retinal_ai_user # Null /\ a.retinal_ai_token # Null
  THEN [a EXCEPT !.currentUser = a.retinal_ai_user, !.currentSession = a.retinal_ai_token]
  ELSE a

\* getAccessToken: the stored token, else the one of currentSession
getAccessToken(a) ==
  IF a.retinal_ai_token # Null THEN a.retinal_ai_token ELSE a.currentSession

\* isAuthenticated: !!getCurrentUser() && !!getAccessToken()
isAuthenticated(a) ==
  /\ getCurrentUser(a).currentUser # Null
  /\ getAccessToken(getCurrentUser(a)) # Null

\* notifyAuthChange: callback(this.currentUser, this.isAuthenticated()) for
\* each callback in turn
RECURSIVE notifyFrom(_, _)
notifyFrom(a, k) ==
  IF k > a.authCallbacks THEN a
  ELSE notifyFrom(
         [getCurrentUser(a) EXCEPT
            !.calls = Append(a.calls, [listener |-> k, user |-> a.currentUser,
                                        isAuthenticated |-> isAuthenticated(a)])],
         k + 1)
notifyAuthChange(a) == notifyFrom([a EXCEPT !.calls = <<>>], 1)

\* { ...this.currentUser, ...profile }: the fields of the profile win
MergeProfile(currentUser, profile) == profile

\* what an awaited call of the backend service can do: resolve with a value,
\* resolve without one (an error result, no profile), or throw
Outcomes == {"value", "empty", "throw"}

Finished(a, i, op, value) ==
  [a EXCEPT !.ops = RemoveAt(a.ops, i), !.result = [op |-> op, value |-> value]]

\* onAuthChange(callback)
AuthOnAuthChange ==
  /\ auth.authCallbacks < MaxListeners
  /\ auth' = [auth EXCEPT !.authCallbacks = @ + 1]
  /\ UNCHANGED <<now, tz, analyses, perf, inflight, last, trainingState, trainingProcess,
                   processes, datasets, sockets, broadcast, users, patients, objectIds,
                   files, disk, app, hook>>

\* signIn up to await mongodbService.signIn(email, password)
AuthSignInStart ==
  \E user \in Accounts :
    /\ Len(auth.ops) < MaxCalls
    /\ auth' = [auth EXCEPT !.ops = Append(@, [op |-> "signIn", pc |-> "signIn", user |-> user]),
                            !.signedOut = FALSE]
    /\ UNCHANGED <<now, tz, analyses, perf, inflight, last, trainingState, trainingProcess,
                   processes, datasets, sockets, broadcast, users, patients, objectIds,
                   files, disk, app, hook>>

\* mongodbService.signIn answers: an error result or a throw is rethrown as
\* 'Sign in failed'; else the session and the user are kept in memory and in
\* localStorage and fetchUserProfile is awaited
AuthSignInAnswered ==
  \E i \in 1..Len(auth.ops), outcome \in Outcomes :
    LET c == auth.ops[i] IN
    /\ c.op = "signIn" /\ c.pc = "signIn"
    /\ auth' =
         IF outcome = "value"
         THEN [auth EXCEPT !.currentSession = TokenFor(c.user), !.currentUser = c.user,
                           !.retinal_ai_token = TokenFor(c.user),
                           !.retinal_ai_user = c.user,
                           !.ops[i].pc = "profile"]
         ELSE Finished(auth, i, "signIn", "Sign in failed")
    /\ UNCHANGED <<now, tz, analyses, perf, inflight, last, trainingState, trainingProcess,
                   processes, datasets, sockets, broadcast, users, patients, objectIds,
                   files, disk, app, hook>>

\* fetchUserProfile of signIn answers: a profile is merged into currentUser, a
\* failure only warned about; then notifyAuthChange and the return
AuthSignInProfile ==
  \E i \in 1..Len(auth.ops), outcome \in Outcomes :
    LET c == auth.ops[i]
        merged == IF outcome = "value"
                  THEN [auth EXCEPT !.currentUser = MergeProfile(@, c.user)]
                  ELSE auth
        notified == notifyAuthChange(merged)
    IN
    /\ c.op = "signIn" /\ c.pc = "profile"
    /\ auth' = Finished(notified, i, "signIn", merged.currentUser)
    /\ UNCHANGED <<now, tz, analyses, perf, inflight, last, trainingState, trainingProcess,
                   processes, datasets, sockets, broadcast, users, patients, objectIds,
                   files, disk, app, hook>>

\* signOut up to await mongodbService.signOut()
AuthSignOutStart ==
  /\ Len(auth.ops) < MaxCalls
  /\ auth' = [auth EXCEPT !.ops = Append(@, [op |-> "signOut", pc |-> "signOut", user |-> Null]),
                          !.signedOut = FALSE]
  /\ UNCHANGED <<now, tz, analyses, perf, inflight, last, trainingState, trainingProcess,
                   processes, datasets, sockets, broadcast, users, patients, objectIds,
                   files, disk, app, hook>>

\* mongodbService.signOut resolves or throws: either way clearSession,
\* notifyAuthChange and { success: true }
AuthSignOutAnswered ==
  \E i \in 1..Len(auth.ops), outcome \in Outcomes \ {"empty"} :
    LET c == auth.ops[i] IN
    /\ c.op = "signOut"
    /\ auth' = [Finished(notifyAuthChange(clearSession(auth)), i, "signOut", "success")
                  EXCEPT !.signedOut = TRUE]
    /\ UNCHANGED <<now, tz, analyses, perf, inflight, last, trainingState, trainingProcess,
                   processes, datasets, sockets, broadcast, users, patients, objectIds,
                   files, disk, app, hook>>

\* validateSession up to await mongodbService.fetchUserProfile()
AuthValidateStart ==
  /\ Len(auth.ops) < MaxCalls
  /\ auth' = [auth EXCEPT !.ops = Append(@, [op |-> "validateSession", pc |-> "profile",
                                             user |-> auth.currentUser]),
                          !.signedOut = FALSE]
  /\ UNCHANGED <<now, tz, analyses, perf, inflight, last, trainingState, trainingProcess,
                   processes, datasets, sockets, broadcast, users, patients, objectIds,
                   files, disk, app, hook>>

\* fetchUserProfile of validateSession answers: a profile (of the user the
\* call was made for) is merged into currentUser, anything else clears the
\* session
AuthValidateProfile ==
  \E i \in 1..Len(auth.ops), outcome \in Outcomes :
    LET c == auth.ops[i] IN
    /\ c.op = "validateSession"
    /\ outcome = "value" => c.user # Null
    /\ auth' =
         IF outcome = "value"
         THEN Finished([auth EXCEPT !.currentUser = MergeProfile(@, c.user)],
                       i, "validateSession", "true")
         ELSE Finished(clearSession(auth), i, "validateSession", "false")
    /\ UNCHANGED <<now, tz, analyses, perf, inflight, last, trainingState, trainingProcess,
                   processes, datasets, sockets, broadcast, users, patients, objectIds,
                   files, disk, app, hook>>

------------------------------------------------------------------------------
(* useModelTraining.js: the WebSocket effect of the training hook *)

\* WebSockets the hook creates in a run
MaxWebSockets == 4

\* the close codes a close event carries: normal closure, abnormal closure
NormalClosure == 1000
CloseCodes == {1000, 1006}

\* the hook before its effect has run: whether the component is mounted, the
\* WebSockets created so far, websocketRef.current (0: null), the timers set
\* so far, reconnectTimeoutRef.current (0: null) and the isConnected state
NoHook ==
  [mounted |-> FALSE, ws |-> <<>>, websocketRef |-> 0,
   timers |-> <<>>, reconnectTimeoutRef |-> 0, isConnected |-> FALSE]

\* connectWebSocket: new WebSocket(wsUrl) stored in websocketRef, its
\* handlers attached
connectWebSocket(h) ==
  [h EXCEPT !.ws = Append(@, [readyState |-> "CONNECTING", closeCalled |-> "no",
                              code |-> 0, mounted |-> h.mounted]),
            !.websocketRef = Len(h.ws) + 1]

\* clearTimeout(id): a pending timer is cancelled, any other id is ignored
clearTimeout(timers, id) ==
  [t \in 1..Len(timers) |->
     IF t = id /\ timers[t] = "pending" THEN "cleared" ELSE timers[t]]

\* the effect runs on mount
MountedHook == connectWebSocket([NoHook EXCEPT !.mounted = TRUE])

\* onopen: isConnected is set and a reconnection timeout is cleared
HookOpen ==
  \E i \in 1..Len(hook.ws) :
    /\ hook.ws[i].readyState = "CONNECTING"
    /\ hook' = [hook EXCEPT
         !.ws[i].readyState = "OPEN",
         !.isConnected = TRUE,
         !.timers = IF hook.reconnectTimeoutRef # 0
                    THEN clearTimeout(@, hook.reconnectTimeoutRef) ELSE @,
         !.reconnectTimeoutRef = 0]
    /\ UNCHANGED <<now, tz, analyses, perf, inflight, last, trainingState, trainingProcess,
                   processes, datasets, sockets, broadcast, users, patients, objectIds,
                   files, disk, app, auth>>

\* onclose: a code other than 1000 sets the reconnect timer of 5 s. A socket
\* closed by close(1000) before its connection was established fails with an
\* abnormal closure; one closed while open reports 1000 when the closing
\* handshake completes and an abnormal closure when the connection is lost
HookClose ==
  \E i \in 1..Len(hook.ws), code \in CloseCodes :
    /\ hook.ws[i].readyState # "CLOSED"
    /\ hook.ws[i].closeCalled = "connecting" => code # NormalClosure
    /\ hook' = [hook EXCEPT
         !.ws[i].readyState = "CLOSED",
         !.ws[i].code = code,
         !.isConnected = FALSE,
         !.timers = IF code # NormalClosure THEN Append(@, "pending") ELSE @,
         !.reconnectTimeoutRef = IF code # NormalClosure THEN Len(hook.timers) + 1 ELSE @]
    /\ UNCHANGED <<now, tz, analyses, perf, inflight, last, trainingState, trainingProcess,
                   processes, datasets, sockets, broadcast, users, patients, objectIds,
                   files, disk, app, auth>>

\* onerror of a socket that is not closed yet: isConnected is reset
HookError ==
  \E i \in 1..Len(hook.ws) :
    /\ hook.ws[i].readyState # "CLOSED"
    /\ hook' = [hook EXCEPT !.isConnected = FALSE]
    /\ UNCHANGED <<now, tz, analyses, perf, inflight, last, trainingState, trainingProcess,
                   processes, datasets, sockets, broadcast, users, patients, objectIds,
                   files, disk, app, auth>>

\* the reconnect timer fires: connectWebSocket()
HookReconnect ==
  \E t \in 1..Len(hook.timers) :
    /\ hook.timers[t] = "pending"
    /\ Len(hook.ws) < MaxWebSockets
    /\ hook' = connectWebSocket([hook EXCEPT !.timers[t] = "fired"])
    /\ UNCHANGED <<now, tz, analyses, perf, inflight, last, trainingState, trainingProcess,
                   processes, datasets, sockets, broadcast, users, patients, objectIds,
                   files, disk, app, auth>>

\* the cleanup of the effect on unmount: close(1000) on the socket of
\* websocketRef, clearTimeout on the timer of reconnectTimeoutRef
HookCleanup ==
  /\ hook.mounted
  /\ hook' = [hook EXCEPT
       !.mounted = FALSE,
       !.ws = [i \in 1..Len(hook.ws) |->
                 IF i = hook.websocketRef /\ hook.ws[i].readyState \in {"CONNECTING", "OPEN"}
                 THEN [hook.ws[i] EXCEPT
                         !.closeCalled = IF hook.ws[i].readyState = "OPEN"
                                         THEN "open" ELSE "connecting",
                         !.readyState = "CLOSING"]
                 ELSE hook.ws[i]],
       !.timers = IF hook.reconnectTimeoutRef # 0
                  THEN clearTimeout(@, hook.reconnectTimeoutRef) ELSE @]
  /\ UNCHANGED <<now, tz, analyses, perf, inflight, last, trainingState, trainingProcess,
                   processes, datasets, sockets, broadcast, users, patients, objectIds,
                   files, disk, app, auth>>

------------------------------------------------------------------------------
(* Specifications *)

\* the clock of the analytics runs: fourteen months after the first document
NowA == (TrendMonths + 2) * MonthDays * DayLen

Doctor1 == CHOOSE u \in Users : u.id = "d1"
Doctor2 == CHOOSE u \in Users : u.id = "d2"

Content(c, s, v) == [condition_detected |-> c, confidence_score |-> s, severity_level |-> v]

\* analyses the doctors have stored through POST /api/analysis: today, thirty
\* days ago to the tick, one tick earlier, and more than twelve months ago
SeedRequests ==
  { [userId |-> "d1", patient_id |-> "pt1", content |-> Content("CNV", 90, "severe"),
     at |-> NowA],
    [userId |-> "d1", patient_id |-> "pt1", content |-> Content("DME", 70, "mild"),
     at |-> ThirtyDaysAgo(NowA)],
    [userId |-> "d1", patient_id |-> "pt1", content |-> Content(Null, NullNum, Null),
     at |-> ThirtyDaysAgo(NowA) - 1],
    [userId |-> "d2", patient_id |-> "pt2", content |-> Content("CNV", 69, Null),
     at |-> NowA],
    [userId |-> "d2", patient_id |-> "pt2", content |-> Content("DME", 89, "severe"),
     at |-> TwelveMonthsAgo(NowA) - 1],
    [userId |-> "d2", patient_id |-> "pt2", content |-> Content("CNV", 90, "severe"),
     at |-> NowA] }

\* the collections those requests leave, in the order of their times
SeedAnalyses ==
  UNION { { [i \in 1..n |->
               NewAnalysis(i, r[i].userId,
                           [patient_id |-> r[i].patient_id, content |-> r[i].content],
                           r[i].at)]
            : r \in {q \in [1..n -> SeedRequests] :
                       \A i \in 1..n, j \in 1..n : i < j => q[i].at <= q[j].at} }
          : n \in 0..MaxAnalyses }

\* the AIModelPerformance rows upserts of yesterday and today leave
SeedPerf ==
  LET row(t, n) == PerfUpdate([modelVersion |-> "v1", accuracyRate |-> 9,
                               totalPredictions |-> n], t)
  IN { <<>>, <<row(NowA, 2)>>, <<row(NowA - DayLen, 1), row(NowA, 2)>> }

InitAnalytics ==
  /\ now = NowA
  /\ tz = 0
  /\ analyses \in SeedAnalyses
  /\ perf \in SeedPerf
  /\ inflight = <<>>
  /\ last = NoResponse
  /\ trainingState = IdleTraining
  /\ trainingProcess = 0
  /\ processes = <<>>
  /\ datasets = 0
  /\ app = NoApp
  /\ auth = NoAuth
  /\ hook = NoHook
  /\ files = {}
  /\ disk = {}
  /\ objectIds = Len(analyses)
  /\ users = Users
  /\ patients = Patients
  /\ sockets = NoSockets
  /\ broadcast = NoBroadcast

NextAnalytics == GetOverview \/ GetDoctor \/ GetAiPerformance \/ GetPatients

SpecAnalytics == InitAnalytics /\ [][NextAnalytics]_vars

InitPerf ==
  /\ now = 0
  /\ tz \in {0, TzShift}
  /\ analyses = <<>>
  /\ perf = <<>>
  /\ inflight = <<>>
  /\ last = NoResponse
  /\ trainingState = IdleTraining
  /\ trainingProcess = 0
  /\ processes = <<>>
  /\ datasets = 0
  /\ app = NoApp
  /\ auth = NoAuth
  /\ hook = NoHook
  /\ files = {}
  /\ disk = {}
  /\ objectIds = Len(analyses)
  /\ users = Users
  /\ patients = Patients
  /\ sockets = NoSockets
  /\ broadcast = NoBroadcast

NextPerf == Tick \/ PostPerfStart \/ PostPerfDb \/ PostPerfReply

SpecPerf == InitPerf /\ [][NextPerf]_vars

\* the role-gated routes over one stored collection
GateAnalyses ==
  <<NewAnalysis(1, "d1", [patient_id |-> "pt1", content |-> Content("CNV", 90, "severe")],
                NowA),
    NewAnalysis(2, "d2", [patient_id |-> "pt2", content |-> Content("DME", 70, "mild")],
                NowA)>>

InitGate ==
  /\ now = NowA
  /\ tz = 0
  /\ analyses \in {<<>>, GateAnalyses}
  /\ perf = <<>>
  /\ inflight = <<>>
  /\ last = NoResponse
  /\ trainingState = IdleTraining
  /\ trainingProcess = 0
  /\ processes = <<>>
  /\ datasets = 0
  /\ app = NoApp
  /\ auth = NoAuth
  /\ hook = NoHook
  /\ files = {}
  /\ disk = {}
  /\ objectIds = Len(analyses)
  /\ users = Users
  /\ patients = Patients
  /\ sockets = NoSockets
  /\ broadcast = NoBroadcast

NextGate ==
  \/ GetOverview \/ GetAiPerformance \/ GetPatients
  \/ PostPerfStart \/ PostPerfDb \/ PostPerfReply

SpecGate == InitGate /\ [][NextGate]_vars

Admin1 == CHOOSE u \in Users : u.id = "a1"

\* an upsert of an admin that has passed the middleware and the validation
\* and waits for findOneAndUpdate
PendingUpsert ==
  [route |-> "postPerf", pc |-> "db", token |-> TokenOf(Admin1),
   body |-> [modelVersion |-> "v1", accuracyRate |-> 9, totalPredictions |-> 1],
   at |-> 0]

\* the upsert route from its await on, with real-time clients coming and going
InitBroadcast ==
  /\ now = 0
  /\ tz = 0
  /\ analyses = <<>>
  /\ perf = <<>>
  /\ inflight = <<PendingUpsert>>
  /\ last = NoResponse
  /\ trainingState = IdleTraining
  /\ trainingProcess = 0
  /\ processes = <<>>
  /\ datasets = 0
  /\ app = NoApp
  /\ auth = NoAuth
  /\ hook = NoHook
  /\ files = {}
  /\ disk = {}
  /\ objectIds = Len(analyses)
  /\ users = Users
  /\ patients = Patients
  /\ sockets = NoSockets
  /\ broadcast = NoBroadcast

NextBroadcast ==
  \/ WsConnect \/ WsAuthenticate \/ WsShut \/ WsClose
  \/ PostPerfDb \/ PostPerfReply

SpecBroadcast == InitBroadcast /\ [][NextBroadcast]_vars

\* one client that has connected and authenticated as the doctor
ConnectedClients ==
  [NoSockets EXCEPT ![1] = [state |-> "open",
                            user |-> [role |-> "doctor", userId |-> Doctor1.id]]]

\* the row an earlier analysis of the day has left
CountedRow(n) ==
  [model_version |-> CountedVersion, accuracy_rate |-> 90, total_predictions |-> n,
   evaluation_date |-> NowA]

\* POST /api/analysis as wired in the server entrypoint, on a database that
\* answers every query
InitWired ==
  /\ now = NowA
  /\ tz = 0
  /\ analyses = <<>>
  /\ perf = <<>>
  /\ inflight = <<>>
  /\ last = NoResponse
  /\ trainingState = IdleTraining
  /\ trainingProcess = 0
  /\ processes = <<>>
  /\ datasets = 0
  /\ app = NoApp
  /\ auth = NoAuth
  /\ hook = NoHook
  /\ files = {}
  /\ disk = {}
  /\ objectIds = Len(analyses)
  /\ users = Users
  /\ patients = Patients
  /\ sockets = ConnectedClients
  /\ broadcast = NoBroadcast

NextWired ==
  \/ PostAnalysisStart(Tokens, PlainBodies)
  \/ PostAnalysisFindPatient({TRUE})
  \/ PostAnalysisSave({TRUE})
  \/ PostAnalysisPopulate(AnalysisModels, {TRUE})

SpecWired == InitWired /\ [][NextWired]_vars

\* POST /api/analysis of a router that is given AIModelPerformance, on a
\* database whose queries can fail
InitCounter ==
  /\ now = NowA
  /\ tz = 0
  /\ analyses = <<>>
  /\ perf \in {<<>>, <<CountedRow(1)>>}
  /\ inflight = <<>>
  /\ last = NoResponse
  /\ trainingState = IdleTraining
  /\ trainingProcess = 0
  /\ processes = <<>>
  /\ datasets = 0
  /\ app = NoApp
  /\ auth = NoAuth
  /\ hook = NoHook
  /\ files = {}
  /\ disk = {}
  /\ objectIds = Len(analyses)
  /\ users = Users
  /\ patients = Patients
  /\ sockets = ConnectedClients
  /\ broadcast = NoBroadcast

NextCounter ==
  \/ PostAnalysisStart(Tokens, PlainBodies)
  \/ PostAnalysisFindPatient(BOOLEAN)
  \/ PostAnalysisSave(BOOLEAN)
  \/ PostAnalysisPopulate(CounterModels, BOOLEAN)
  \/ PostAnalysisPerfFind(BOOLEAN)
  \/ PostAnalysisPerfSave(BOOLEAN)
  \/ PostAnalysisReply

\* the analysis routes that change or remove a stored analysis, over one
\* analysis of each doctor
InitRecords ==
  /\ now = NowA
  /\ tz = 0
  /\ analyses = GateAnalyses
  /\ perf = <<>>
  /\ inflight = <<>>
  /\ last = NoResponse
  /\ trainingState = IdleTraining
  /\ trainingProcess = 0
  /\ processes = <<>>
  /\ datasets = 0
  /\ app = NoApp
  /\ auth = NoAuth
  /\ hook = NoHook
  /\ files = {}
  /\ disk = {}
  /\ objectIds = Len(analyses)
  /\ users = Users
  /\ patients = Patients
  /\ sockets = ConnectedClients
  /\ broadcast = NoBroadcast

\* callers without a token and the two doctors, asking for analysis 1
RecordTokens == {NoToken, TokenOf(Doctor1), TokenOf(Doctor2)}
RecordBodies == {b \in UpdateBodies : "condition_detected" \notin DOMAIN b}

NextRecords ==
  \/ PutAnalysisStart(RecordTokens, {1}, RecordBodies)
  \/ PutAnalysisFind(BOOLEAN)
  \/ PutAnalysisUpdate(BOOLEAN)
  \/ DeleteAnalysisStart(RecordTokens, {1})
  \/ DeleteAnalysisFind(BOOLEAN)
  \/ DeleteAnalysisRemove(BOOLEAN)

SpecRecords == InitRecords /\ [][NextRecords]_vars

\* signup and patient creation, from the accounts of the seed and the one
\* patient that has both an account and a doctor
InitAccounts ==
  /\ now = NowA
  /\ tz = 0
  /\ analyses = <<>>
  /\ perf = <<>>
  /\ inflight = <<>>
  /\ last = NoResponse
  /\ trainingState = IdleTraining
  /\ trainingProcess = 0
  /\ processes = <<>>
  /\ datasets = 0
  /\ app = NoApp
  /\ auth = NoAuth
  /\ hook = NoHook
  /\ files = {}
  /\ disk = {}
  /\ objectIds = Len(analyses)
  /\ users = Users
  /\ patients = {p \in Patients : p.user_id # Oid(Null)}
  /\ sockets = NoSockets
  /\ broadcast = NoBroadcast

\* signups with one fresh email, and patients created by the admin, a
\* doctor and a caller without a token
AccountBodies == {b \in SignupBodies : b.email # "new2@clinic" /\ b.role # Null}
AccountTokens == {NoToken, TokenOf(Admin1), TokenOf(Doctor1)}

NextAccounts ==
  \/ SignupStart(AccountBodies)
  \/ SignupFindUser({TRUE})
  \/ SignupSaveUser(BOOLEAN)
  \/ SignupSavePatient(BOOLEAN)
  \/ PostPatientStart(AccountTokens)
  \/ PostPatientSave(BOOLEAN)
  \/ PostPatientReply({TRUE})

SpecAccounts == InitAccounts /\ [][NextAccounts]_vars


\* signups alone, with the role given or omitted, each save failing or not
NextSignup ==
  \/ SignupStart(SignupBodies)
  \/ SignupFindUser({TRUE})
  \/ SignupSaveUser(BOOLEAN)
  \/ SignupSavePatient(BOOLEAN)

SpecSignup == InitAccounts /\ [][NextSignup]_vars

\* the overview of the admin while a doctor stores and deletes analyses
InitSnapshot ==
  /\ now = NowA
  /\ tz = 0
  /\ analyses = <<>>
  /\ perf = <<>>
  /\ inflight = <<>>
  /\ last = NoResponse
  /\ trainingState = IdleTraining
  /\ trainingProcess = 0
  /\ processes = <<>>
  /\ datasets = 0
  /\ app = NoApp
  /\ auth = NoAuth
  /\ hook = NoHook
  /\ files = {}
  /\ disk = {}
  /\ objectIds = Len(analyses)
  /\ users = Users
  /\ patients = Patients
  /\ sockets = NoSockets
  /\ broadcast = NoBroadcast

NextSnapshot ==
  \/ OverviewStart({TokenOf(Admin1)})
  \/ OverviewAwait({TRUE})
  \/ PostAnalysisStart(Tokens, PlainBodies)
  \/ PostAnalysisFindPatient({TRUE})
  \/ PostAnalysisSave({TRUE})
  \/ PostAnalysisPopulate(AnalysisModels, {TRUE})
  \/ DeleteAnalysisStart({TokenOf(Doctor1)}, {1})
  \/ DeleteAnalysisFind({TRUE})
  \/ DeleteAnalysisRemove({TRUE})

SpecSnapshot == InitSnapshot /\ [][NextSnapshot]_vars

\* a platform with one doctor more than the leaderboard holds: each doctor
\* has stored one or two analyses, and one analysis carries the id of the
\* admin's account
LeaderDoctors == <<"d1", "d2", "e1", "e2", "e3", "e4", "e5", "e6", "e7", "e8", "e9">>
LeaderUsers ==
  Users \cup { [id |-> LeaderDoctors[k], role |-> "doctor", email |-> LeaderDoctors[k]]
               : k \in 3..Len(LeaderDoctors) }
LeaderAnalysis(k) ==
  LET n == Len(LeaderDoctors)
      owner == IF k = 2 * n + 1 THEN "a1" ELSE LeaderDoctors[((k - 1) % n) + 1]
  IN NewAnalysis(k, owner, [patient_id |-> "pt1", content |-> Content("CNV", 90, "severe")],
                 NowA)

RECURSIVE LeaderAnalyses(_, _)
LeaderAnalyses(k, twice) ==
  IF k > 2 * Len(LeaderDoctors) + 1 THEN <<>>
  ELSE (IF k > Len(LeaderDoctors) /\ k <= 2 * Len(LeaderDoctors)
           /\ LeaderDoctors[k - Len(LeaderDoctors)] \notin twice
        THEN <<>> ELSE <<LeaderAnalysis(k)>>)
       \o LeaderAnalyses(k + 1, twice)

InitLeaderboard ==
  /\ now = NowA
  /\ tz = 0
  /\ analyses \in {LeaderAnalyses(1, twice) :
                     twice \in SUBSET {LeaderDoctors[k] : k \in 1..Len(LeaderDoctors)}}
  /\ perf \in {<<>>, <<CountedRow(1)>>}
  /\ inflight = <<>>
  /\ last = NoResponse
  /\ trainingState = IdleTraining
  /\ trainingProcess = 0
  /\ processes = <<>>
  /\ datasets = 0
  /\ app = NoApp
  /\ auth = NoAuth
  /\ hook = NoHook
  /\ files = {}
  /\ disk = {}
  /\ objectIds = Len(analyses)
  /\ users = LeaderUsers
  /\ patients = Patients
  /\ sockets = NoSockets
  /\ broadcast = NoBroadcast

NextLeaderboard == GetOverview

SpecLeaderboard == InitLeaderboard /\ [][NextLeaderboard]_vars

\* a patient a doctor has created, the handler waiting for findById
PendingPatient ==
  [route |-> "postPatient", pc |-> "populate", token |-> TokenOf(Doctor1),
   body |-> [required |-> TRUE], at |-> 0, id |-> NewPatientId(Patients),
   found |-> 0, total |-> 0]

\* one broadcast to every role and one to admins, with real-time clients
\* coming and going
InitSockets ==
  /\ now = 0
  /\ tz = 0
  /\ analyses = <<>>
  /\ perf = <<>>
  /\ inflight = <<PendingUpsert, PendingPatient>>
  /\ last = NoResponse
  /\ trainingState = IdleTraining
  /\ trainingProcess = 0
  /\ processes = <<>>
  /\ datasets = 0
  /\ app = NoApp
  /\ auth = NoAuth
  /\ hook = NoHook
  /\ files = {}
  /\ disk = {}
  /\ objectIds = Len(analyses)
  /\ users = Users
  /\ patients = Patients \cup {CreatedPatient(NewPatientId(Patients), Doctor1.id, 0)}
  /\ sockets = NoSockets
  /\ broadcast = NoBroadcast

NextSockets ==
  \/ WsConnect \/ WsAuthenticate \/ WsShut \/ WsClose
  \/ PostPerfDb \/ PostPerfReply
  \/ PostPatientReply({TRUE})

SpecSockets == InitSockets /\ [][NextSockets]_vars

\* the analysis routes called by doctor d1, over one analysis that doctor d2
\* has stored for the own patient
IsolationBodies ==
  {b \in AnalysisBodies :
     b.patient_id \in {"pt1", "pt2"} /\ b.content = Content("CNV", 90, "severe")}
OtherDoctorsAnalysis ==
  NewAnalysis(1, "d2", [patient_id |-> "pt2", content |-> Content("DME", 70, "mild")], NowA)

InitIsolation ==
  /\ now = NowA
  /\ tz = 0
  /\ analyses = <<OtherDoctorsAnalysis>>
  /\ perf = <<>>
  /\ inflight = <<>>
  /\ last = NoResponse
  /\ trainingState = IdleTraining
  /\ trainingProcess = 0
  /\ processes = <<>>
  /\ datasets = 0
  /\ app = NoApp
  /\ auth = NoAuth
  /\ hook = NoHook
  /\ files = {}
  /\ disk = {}
  /\ objectIds = Len(analyses)
  /\ users = Users
  /\ patients = Patients
  /\ sockets = ConnectedClients
  /\ broadcast = NoBroadcast

NextIsolation ==
  \/ PostAnalysisStart({TokenOf(Doctor1)}, IsolationBodies)
  \/ PostAnalysisFindPatient({TRUE})
  \/ PostAnalysisSave({TRUE})
  \/ PostAnalysisPopulate(AnalysisModels, {TRUE})
  \/ PutAnalysisStart({TokenOf(Doctor1)}, {1, 2}, {[confidence_score |-> 50]})
  \/ PutAnalysisFind({TRUE})
  \/ PutAnalysisUpdate({TRUE})
  \/ DeleteAnalysisStart({TokenOf(Doctor1)}, {2})
  \/ DeleteAnalysisFind({TRUE})
  \/ DeleteAnalysisRemove({TRUE})
  \/ GetAnalysis({TokenOf(Doctor1)}, {1, 2}, {TRUE})
  \/ GetPatientAnalyses({TokenOf(Doctor1)}, {"pt2"}, {TRUE})
  \/ GetAnalysesStart({TokenOf(Doctor1)}, {Null})
  \/ GetAnalysesFind({TRUE})
  \/ GetAnalysesCount({TRUE})

SpecIsolation == InitIsolation /\ [][NextIsolation]_vars

\* three uploads: by doctor d1 and by patient p1 for d1's patient pt1 (whose
\* account is p1), and by doctor d2 for d2's patient pt2
SeedFiles ==
  { [id |-> "f1", file_name |-> "retinal-1.png", user_id |-> Oid("d1"),
     patient_id |-> Oid("pt1")],
    [id |-> "f2", file_name |-> "retinal-2.png", user_id |-> Oid("p1"),
     patient_id |-> Oid("pt1")],
    [id |-> "f3", file_name |-> "retinal-3.png", user_id |-> Oid("d2"),
     patient_id |-> Oid("pt2")] }
FileNames == {f.file_name : f \in SeedFiles}
FileIds == {f.id : f \in SeedFiles}
FileCallers == {NoToken} \cup {TokenOf(u) : u \in {v \in Users : v.id \in {"d2", "p1"}}}

InitFiles ==
  /\ now = NowA
  /\ tz = 0
  /\ analyses = <<>>
  /\ perf = <<>>
  /\ inflight = <<>>
  /\ last = NoResponse
  /\ trainingState = IdleTraining
  /\ trainingProcess = 0
  /\ processes = <<>>
  /\ datasets = 0
  /\ app = NoApp
  /\ auth = NoAuth
  /\ hook = NoHook
  /\ files = SeedFiles
  /\ disk = FileNames
  /\ objectIds = 0
  /\ users = Users
  /\ patients = Patients
  /\ sockets = ConnectedClients
  /\ broadcast = NoBroadcast

NextFiles ==
  \/ GetFileFind(FileCallers, FileNames, {TRUE})
  \/ GetFileAccess
  \/ GetFileUrl(FileCallers, FileNames, {TRUE})
  \/ DeleteFileFind(FileCallers, FileIds, {TRUE})
  \/ DeleteFileUnlink(BOOLEAN)
  \/ DeleteFileRemove({TRUE})
  \/ GetStaticUpload(FileCallers, FileNames)

SpecFiles == InitFiles /\ [][NextFiles]_vars

SpecCounter == InitCounter /\ [][NextCounter]_vars

InitTraining ==
  /\ now = 0
  /\ tz = 0
  /\ analyses = <<>>
  /\ perf = <<>>
  /\ inflight = <<>>
  /\ last = NoResponse
  /\ trainingState = IdleTraining
  /\ trainingProcess = 0
  /\ processes = <<>>
  /\ datasets = 0
  /\ app = NoApp
  /\ auth = NoAuth
  /\ hook = NoHook
  /\ files = {}
  /\ disk = {}
  /\ objectIds = Len(analyses)
  /\ users = Users
  /\ patients = Patients
  /\ sockets = NoSockets
  /\ broadcast = NoBroadcast

NextTraining ==
  \/ TrainingStatus \/ TrainingStart \/ TrainingStop
  \/ ProcessStdout \/ ProcessStderr \/ ProcessClose
  \/ DatasetUpload

SpecTraining == InitTraining /\ [][NextTraining]_vars


\* the service after initializeAuth, with or without a stored session
InitAuth ==
  /\ now = 0
  /\ tz = 0
  /\ analyses = <<>>
  /\ perf = <<>>
  /\ inflight = <<>>
  /\ last = NoResponse
  /\ trainingState = IdleTraining
  /\ trainingProcess = 0
  /\ processes = <<>>
  /\ datasets = 0
  /\ app = NoApp
  /\ auth \in {NoAuth, RestoredAuth("ann")}
  /\ hook = NoHook
  /\ files = {}
  /\ disk = {}
  /\ objectIds = 0
  /\ users = Users
  /\ patients = Patients
  /\ sockets = NoSockets
  /\ broadcast = NoBroadcast

NextAuth ==
  \/ AuthOnAuthChange
  \/ AuthSignInStart \/ AuthSignInAnswered \/ AuthSignInProfile
  \/ AuthSignOutStart \/ AuthSignOutAnswered
  \/ AuthValidateStart \/ AuthValidateProfile

SpecAuth == InitAuth /\ [][NextAuth]_vars


\* the hook of a mounted component, its first WebSocket connecting
InitHook ==
  /\ now = 0
  /\ tz = 0
  /\ analyses = <<>>
  /\ perf = <<>>
  /\ inflight = <<>>
  /\ last = NoResponse
  /\ trainingState = IdleTraining
  /\ trainingProcess = 0
  /\ processes = <<>>
  /\ datasets = 0
  /\ app = NoApp
  /\ auth = NoAuth
  /\ hook = MountedHook
  /\ files = {}
  /\ disk = {}
  /\ objectIds = 0
  /\ users = Users
  /\ patients = Patients
  /\ sockets = NoSockets
  /\ broadcast = NoBroadcast

NextHook == HookOpen \/ HookClose \/ HookError \/ HookReconnect \/ HookCleanup

SpecHook == InitHook /\ [][NextHook]_vars

\* the app after its initialisation, with any stored user
InitApp ==
  /\ now = 0
  /\ tz = 0
  /\ analyses = <<>>
  /\ perf = <<>>
  /\ inflight = <<>>
  /\ last = NoResponse
  /\ trainingState = IdleTraining
  /\ trainingProcess = 0
  /\ processes = <<>>
  /\ datasets = 0
  /\ app \in {AppOf(u) : u \in AppUsers}
  /\ auth = NoAuth
  /\ hook = NoHook
  /\ files = {}
  /\ disk = {}
  /\ objectIds = 0
  /\ users = Users
  /\ patients = Patients
  /\ sockets = NoSockets
  /\ broadcast = NoBroadcast

NextApp == AppNavigateTo \/ AppAuthChange \/ AppLogin \/ AppLogout

SpecApp == InitApp /\ [][NextApp]_vars

------------------------------------------------------------------------------
(* The model-performance upsert *)

RowsOfUtcDay(rows, ver, day) ==
  {i \in 1..Len(rows) : rows[i].model_version = ver /\ UtcDay(rows[i].evaluation_date) = day}

RowsOfLocalDay(rows, ver, day) ==
  {i \in 1..Len(rows) : rows[i].model_version = ver /\ LocalDay(rows[i].evaluation_date, tz) = day}

\* the upsert of context i is executed in this step
UpsertExecutes(i) ==
  /\ i \in 1..Len(inflight) /\ Len(inflight') = Len(inflight)
  /\ inflight[i].route = "postPerf" /\ inflight[i].pc = "db"
  /\ inflight'[i].pc = "reply"

\* C1: when an upsert is executed and the collection holds the row of an
\* earlier upsert of the same modelVersion made in the same UTC calendar day,
\* the collection afterwards holds exactly one row for that version and day,
\* and the row carries the second call's metrics.
C1_SecondUpsertOverwrites ==
  [][\A i \in 1..Len(inflight) :
       LET c == inflight[i]
           day == UtcDay(c.at) IN
       (UpsertExecutes(i) /\ RowsOfUtcDay(perf, c.body.modelVersion, day) # {})
         => /\ Cardinality(RowsOfUtcDay(perf', c.body.modelVersion, day)) = 1
            /\ \A k \in RowsOfUtcDay(perf', c.body.modelVersion, day) :
                 /\ perf'[k].total_predictions = c.body.totalPredictions
                 /\ perf'[k].accuracy_rate = c.body.accuracyRate]_vars

\* C2: the collection holds at most one row per model_version and calendar
\* day (the day of the server's zone, which is the key of the upsert).
C2_OneRowPerVersionAndDay ==
  \A i, j \in 1..Len(perf) :
    (/\ perf[i].model_version = perf[j].model_version
     /\ LocalDay(perf[i].evaluation_date, tz) = LocalDay(perf[j].evaluation_date, tz))
      => i = j

------------------------------------------------------------------------------
(* The role gate *)

\* the allowed roles of the routes behind requireRole
RoleGated ==
  [overview |-> {"admin", "doctor"}, patients |-> {"admin", "doctor"},
   aiPerformance |-> {"admin"}, postPerf |-> {"admin"}]

\* r answers an authenticated caller whose role the route does not allow
Rejected(r) ==
  /\ r.route \in DOMAIN RoleGated
  /\ r.token.kind = "valid"
  /\ r.token.role \notin RoleGated[r.route]

\* C3: on GET and POST /ai-performance (admin) and on GET /overview and GET
\* /patients (admin, doctor), an authenticated caller whose role is not allowed
\* is answered 403 'Insufficient permissions' by a handler run that executed no
\* query and broadcast no event, and the step that answers leaves both
\* collections and the suspended handlers as they were.
C3_RoleGateRejects ==
  /\ [](Rejected(last) =>
          /\ last.status = 403
          /\ last.queries = 0
          /\ last.event = "none"
          /\ last.body = ErrorBody("Insufficient permissions"))
  /\ [][(Rejected(last') /\ last' # last) => UNCHANGED <<analyses, perf, inflight>>]_vars

\* a patient was refused the POST while an admin's upsert is under way
C3_PatientRefusedPost ==
  /\ last.route = "postPerf" /\ last.token.kind = "valid" /\ last.token.role = "patient"
  /\ last.status = 403
  /\ Len(inflight) > 0

------------------------------------------------------------------------------
(* GET /api/analytics/doctor/:doctorId? *)

DoctorCall(r) == r.route = "doctor" /\ r.token.kind = "valid"

\* no account with role doctor has this id
NoSuchDoctor(id) == ~\E u \in Users : u.id = id /\ u.role = "doctor"

\* C4: a doctor who names a doctorId other than their own userId is answered
\* 403 'Access denied to other doctor analytics' before any query, whether or
\* not the id is a doctor's; an admin who names a doctor's id is never refused:
\* the answer is the analytics, or 500 when a query failed.
C4_DoctorDeniedOtherId ==
  DoctorCall(last) =>
    /\ (last.token.role = "doctor" /\ last.param # Null /\ last.param # last.token.userId)
         => /\ last.status = 403
            /\ last.queries = 0
            /\ last.body = ErrorBody("Access denied to other doctor analytics")
    /\ (last.token.role = "admin" /\ last.param # Null /\ ~NoSuchDoctor(last.param))
         => /\ last.status \in {200, 500}
            /\ last.status = 200 => last.body = DoctorBody(last.param, analyses, now)

\* doctor d1 named an id that no account has and was refused
C4_DoctorRefusedUnknownId ==
  /\ DoctorCall(last) /\ last.token.userId = "d1" /\ last.param = "zz"
  /\ last.status = 403

\* C5 as the specification states it: every doctor or admin who names an id of
\* no doctor is answered 404 'Doctor not found' (the answers to a failed
\* query set aside).
C5_UnknownIdAlwaysNotFound ==
  (/\ DoctorCall(last) /\ last.token.role \in {"doctor", "admin"}
   /\ last.param # Null /\ NoSuchDoctor(last.param) /\ last.status # 500)
    => last.status = 404 /\ last.body = ErrorBody("Doctor not found")

\* C5: a caller the ownership check lets through (anyone but a doctor naming
\* another id) who names a well-formed id of no doctor is answered 404 'Doctor
\* not found', or 500 when the lookup failed; a doctor naming another id is
\* answered 403 even when no doctor has that id; 404 is answered only for an
\* id of no doctor and 403 only for a doctor naming another id.
C5_NotFoundAfterOwnership ==
  (DoctorCall(last) /\ last.param # Null) =>
    LET denied == last.token.role = "doctor" /\ last.param # last.token.userId IN
    /\ denied => last.status = 403
    /\ (~denied /\ last.param \in WellFormedIds /\ NoSuchDoctor(last.param))
         => /\ last.status \in {404, 500}
            /\ last.status = 404 => last.body = ErrorBody("Doctor not found")
    /\ last.status = 404 => (~denied /\ NoSuchDoctor(last.param))
    /\ last.status = 403 => denied

\* an admin named the id of a patient account and was answered 404
C5_AdminNotFound ==
  /\ DoctorCall(last) /\ last.token.role = "admin" /\ last.param = "p1"
  /\ last.status = 404

\* the answer r is the one the handler gives, for some outcome of the
\* queries, to the caller of r naming their own id
AsOwnId(r) ==
  \E failAt \in FailPoints :
    LET own == DoctorAnalytics(r.token, r.token.userId, failAt, analyses, now) IN
    /\ own.status = r.status
    /\ own.body = r.body
    /\ own.queries = r.queries

\* C6 as the specification states it: for every authenticated caller, the
\* request without doctorId is answered as the request naming the caller's id.
C6_OmittedAsOwnId ==
  (DoctorCall(last) /\ last.param = Null) => AsOwnId(last)

\* C6: for a caller with role doctor, the request without doctorId is answered
\* as the request naming the caller's own id (same status, same body, same
\* queries); a caller of another role who omits doctorId is answered 400
\* 'Doctor ID is required for non-doctor users'.
C6_OmittedAsOwnIdForDoctor ==
  (DoctorCall(last) /\ last.param = Null) =>
    IF last.token.role = "doctor"
    THEN AsOwnId(last)
    ELSE /\ last.status = 400
         /\ last.body = ErrorBody("Doctor ID is required for non-doctor users")

\* doctor d1 omitted doctorId and received analytics that count an analysis
C6_DoctorOmittedId ==
  /\ DoctorCall(last) /\ last.param = Null /\ last.token.userId = "d1"
  /\ last.status = 200
  /\ last.body.totalAnalyses > 0

\* C7: a caller with role patient is never answered 200 by GET
\* /doctor/:doctorId?, whatever doctorId is.
C7_PatientNeverAnswered ==
  (DoctorCall(last) /\ last.token.role = "patient") => last.status # 200

------------------------------------------------------------------------------
(* GET /api/analytics/overview *)

\* the analyses of a doctor, in insertion order, without their _id
OwnAnalyses(A, userId) ==
  LET own == SelectSeq(A, LAMBDA a : a.doctor_id = Oid(userId)) IN
  [i \in 1..Len(own) |-> [own[i] EXCEPT !.id = 0]]

OwnPatients(P, userId) == {p \in P : p.doctor_id = Oid(userId)}

\* the sum of the counts of a $group result, and of a sorted one
Total(groups) == SumOf([g \in groups |-> g.count], groups)
TotalSeq(groups) == SumOf([i \in 1..Len(groups) |-> groups[i].count], 1..Len(groups))

\* C8: the overview a doctor receives is the overview computed on every
\* database (analyses and patients) that holds the same records of that
\* doctor, whatever it holds of other doctors; the overview an admin receives
\* counts every patient and every analysis.
C8_OverviewOwnRecordsOnly ==
  (last.route = "overview" /\ last.status = 200) =>
    IF last.token.role = "doctor"
    THEN \A B \in SeedAnalyses, Q \in SUBSET Patients :
           (/\ OwnAnalyses(B, last.token.userId) = OwnAnalyses(analyses, last.token.userId)
            /\ OwnPatients(Q, last.token.userId) = OwnPatients(Patients, last.token.userId))
             => OverviewBody(last.token, B, Q, perf, now) = last.body
    ELSE LET m == last.body.common IN
         /\ m.totalPatients = Cardinality(Patients)
         /\ m.totalAnalyses = Len(analyses)
         /\ m.recentAnalyses =
              Cardinality({i \in Idx(analyses) : analyses[i].created_at >= ThirtyDaysAgo(now)})
         /\ TotalSeq(m.conditionDistribution) =
              Cardinality({i \in Idx(analyses) : analyses[i].condition_detected # Null})
         /\ TotalSeq(m.severityDistribution) =
              Cardinality({i \in Idx(analyses) : analyses[i].severity_level # Null})
         /\ Total(m.monthlyTrends) =
              Cardinality({i \in Idx(analyses) : analyses[i].created_at >= TwelveMonthsAgo(now)})

\* doctor d1 received an overview while the collection held an analysis of
\* d1 and one of d2
C8_DoctorOverviewAmongOthers ==
  /\ last.route = "overview" /\ last.status = 200 /\ last.token.userId = "d1"
  /\ \E i, j \in Idx(analyses) :
       analyses[i].doctor_id = Oid("d1") /\ analyses[j].doctor_id = Oid("d2")
  /\ last.body.common.totalAnalyses = 1

------------------------------------------------------------------------------
(* /api/model-training *)

\* C9: a step that answers a request without a valid token changes neither
\* trainingState nor the training processes nor the stored datasets nor a
\* collection.
C9_UnauthenticatedChangesNothing ==
  [][(last' # last /\ last'.token.kind # "valid")
       => UNCHANGED <<trainingState, trainingProcess, processes, datasets, analyses, perf>>]_vars

------------------------------------------------------------------------------
(* GET /api/analytics/ai-performance *)

\* C10: in a 200 of GET /ai-performance, high_confidence counts the analyses
\* with a score of at least 0.9, medium_confidence those from 0.7 to below
\* 0.9 and low_confidence those below 0.7; every analysis with a score is in
\* exactly one of the three, and the three counts add up to total_predictions,
\* the number of analyses with a score.
C10_BucketsPartition ==
  (last.route = "aiPerformance" /\ last.status = 200) =>
    LET S == {i \in Idx(analyses) : analyses[i].confidence_score # NullNum}
        score(i) == analyses[i].confidence_score
        o == last.body.overallPerformance
    IN IF S = {} THEN o = NoBody
       ELSE /\ o.high_confidence = Cardinality({i \in S : score(i) >= 90})
            /\ o.medium_confidence = Cardinality({i \in S : score(i) >= 70 /\ score(i) < 90})
            /\ o.low_confidence = Cardinality({i \in S : score(i) < 70})
            /\ \A i \in S :
                 Cardinality({b \in {"high", "medium", "low"} :
                                \/ b = "high" /\ HighBucket(score(i))
                                \/ b = "medium" /\ MediumBucket(score(i))
                                \/ b = "low" /\ LowBucket(score(i))}) = 1
            /\ o.total_predictions = Cardinality(S)
            /\ o.high_confidence + o.medium_confidence + o.low_confidence
                 = o.total_predictions

\* an admin received the buckets of a collection with a score of exactly 0.7
\* and one of exactly 0.9
C10_BoundaryScoresCounted ==
  /\ last.route = "aiPerformance" /\ last.status = 200
  /\ \E i, j \in Idx(analyses) :
       analyses[i].confidence_score = 70 /\ analyses[j].confidence_score = 90
  /\ last.body.overallPerformance.medium_confidence = 1
  /\ last.body.overallPerformance.high_confidence = 1

------------------------------------------------------------------------------
(* The histograms *)

\* h is the histogram of key over S: one group per value, each with the
\* number of members of S that have the value, largest count first
IsHistogramOf(h, S, key) ==
  /\ \A k \in {key[i] : i \in S} :
       /\ Cardinality({j \in 1..Len(h) : h[j].key = k}) = 1
       /\ \A j \in 1..Len(h) :
            h[j].key = k => h[j].count = Cardinality({i \in S : key[i] = k})
  /\ \A j \in 1..Len(h) : h[j].key \in {key[i] : i \in S}
  /\ TotalSeq(h) = Cardinality(S)
  /\ \A j \in 1..(Len(h) - 1) : h[j].count >= h[j + 1].count

\* the analyses of the caller's scope: those of the doctor, or all
InScope(A, role, doctorId) ==
  {i \in Idx(A) : role = "doctor" => A[i].doctor_id = Oid(doctorId)}

\* C11: in a 200 of GET /overview the condition and severity histograms, and
\* in a 200 of GET /doctor/:doctorId the condition histogram, have exactly one
\* group per distinct non-null value of the analyses in the caller's scope,
\* each with the number of in-scope analyses of that value; the counts sum to
\* the number of in-scope analyses with the field, and the groups are in
\* non-increasing order of count.
C11_HistogramsCountScope ==
  /\ (last.route = "overview" /\ last.status = 200) =>
       LET S == InScope(analyses, last.token.role, last.token.userId) IN
       /\ IsHistogramOf(last.body.common.conditionDistribution,
                        {i \in S : analyses[i].condition_detected # Null},
                        [i \in Idx(analyses) |-> analyses[i].condition_detected])
       /\ IsHistogramOf(last.body.common.severityDistribution,
                        {i \in S : analyses[i].severity_level # Null},
                        [i \in Idx(analyses) |-> analyses[i].severity_level])
  /\ (last.route = "doctor" /\ last.status = 200) =>
       LET S == InScope(analyses, "doctor", last.body.doctor) IN
       IsHistogramOf(last.body.conditionDistribution,
                     {i \in S : analyses[i].condition_detected # Null},
                     [i \in Idx(analyses) |-> analyses[i].condition_detected])

------------------------------------------------------------------------------
(* Failing queries *)

AnalyticsGets == {"overview", "doctor", "aiPerformance", "patients"}

\* the message of each handler's catch
GenericError ==
  [overview |-> "Failed to fetch analytics overview",
   doctor |-> "Failed to fetch doctor analytics",
   aiPerformance |-> "Failed to fetch AI performance analytics",
   patients |-> "Failed to fetch patient analytics"]

\* r is the answer of a catch: 500, the generic message and nothing else,
\* with no query after the failing one
IsGeneric500(r, failAt) ==
  /\ r.status = 500
  /\ r.body = ErrorBody(GenericError[r.route])
  /\ r.queries = failAt
  /\ r.event = "none"

\* the handler ran for the request r answers
Handled(r) == r.route \in AnalyticsGets /\ r.token.kind = "valid" /\ r.status # 403

\* C12: for every analytics GET request a handler has answered, on the
\* database it ran on: had any one of the handler's queries failed (for
\* /doctor: any query the handler gets to), the answer would be 500 with the
\* handler's own {error} body and no query after the failing one; every 500
\* sent carries nothing but that body, and the step that answers an analytics
\* GET changes no collection.
C12_FailureAbortsWith500 ==
  /\ [](Handled(last) =>
          LET token == last.token IN
          /\ last.route = "overview" =>
               \A failAt \in 1..OverviewQueries(token) :
                 IsGeneric500(OverviewAnalytics(token, failAt, analyses, Patients, perf, now),
                              failAt)
          /\ last.route = "patients" =>
               \A failAt \in 1..PatientsQueries :
                 IsGeneric500(PatientsAnalytics(token, failAt, analyses, now), failAt)
          /\ last.route = "aiPerformance" =>
               \A failAt \in 1..AiPerformanceQueries :
                 IsGeneric500(AiPerformanceAnalytics(token, failAt, analyses, perf, now),
                              failAt)
          /\ last.route = "doctor" =>
               LET healthy == DoctorAnalytics(token, last.param, 0, analyses, now) IN
               /\ healthy.queries >= 1 =>
                    IsGeneric500(DoctorAnalytics(token, last.param, 1, analyses, now), 1)
               /\ healthy.status = 200 =>
                    \A failAt \in 2..DoctorQueries :
                      IsGeneric500(DoctorAnalytics(token, last.param, failAt, analyses, now),
                                   failAt)
          /\ last.status = 500 =>
               /\ last.body = ErrorBody(GenericError[last.route])
               /\ last.queries >= 1
               /\ last.event = "none")
  /\ [][(last' # last /\ last'.route \in AnalyticsGets)
          => UNCHANGED <<analyses, perf, inflight>>]_vars

\* the second query of an admin's overview failed over a stored analysis
C12_OverviewFailedMidway ==
  /\ last.route = "overview" /\ last.token.role = "admin"
  /\ last.status = 500 /\ last.queries = 2
  /\ Len(analyses) > 0

------------------------------------------------------------------------------
(* The broadcast of the upsert *)

\* in this step the handler of an executed upsert resumes after its await
UpsertAnswered ==
  \E i \in 1..Len(inflight) :
    /\ inflight[i].route = "postPerf" /\ inflight[i].pc = "reply"
    /\ inflight' = RemoveAt(inflight, i)

\* C13 as the specification states it: the step that answers an executed
\* upsert sends ai_performance_updated to every socket that is OPEN.
C13_BroadcastToEveryOpenSocket ==
  [][UpsertAnswered =>
       /\ broadcast'.type = "ai_performance_updated"
       /\ broadcast'.to = {s \in SocketIds : sockets[s].state = "open"}]_vars

\* C13: the step that answers an executed upsert sends ai_performance_updated
\* to every socket that is OPEN and has authenticated with a valid token (the
\* entries of activeConnections), to no other socket, and answers 200 in the
\* same step; an executed upsert is answered in no other way.
C13_BroadcastToAuthenticatedSockets ==
  [][UpsertAnswered =>
       /\ broadcast'.type = "ai_performance_updated"
       /\ broadcast'.to =
            {s \in SocketIds : sockets[s].state = "open" /\ sockets[s].user # NoUser}
       /\ last'.route = "postPerf" /\ last'.status = 200
       /\ last'.event = "ai_performance_updated"]_vars

\* an upsert was answered while socket 1 was OPEN and authenticated and
\* socket 2 OPEN and not authenticated
C13_SentToOneOfTwoOpen ==
  /\ last.route = "postPerf" /\ last.status = 200
  /\ broadcast = [type |-> "ai_performance_updated", to |-> {1}]
  /\ sockets[1].state = "open" /\ sockets[1].user # NoUser
  /\ sockets[2].state = "open" /\ sockets[2].user = NoUser

------------------------------------------------------------------------------
(* The prediction counter of POST /api/analysis *)

\* the sum of total_predictions over the day's rows of the counted version
DayTotal(rows) ==
  SumOf([k \in 1..Len(rows) |-> rows[k].total_predictions], CountedRows(rows, now, tz))

\* in this step the save() of a request's counter update is executed
CounterWritten ==
  \E i \in 1..Len(inflight) :
    /\ inflight[i].route = "postAnalysis" /\ inflight[i].pc = "perfSave"
    /\ Len(inflight') = Len(inflight)
    /\ inflight'[i].pc = "reply"

\* C14: every executed counter update of a POST /api/analysis leaves one row
\* of the day for 'DeiT+ResNet18-v1.0' and adds exactly one to the day's
\* total_predictions, so that n successful requests of a day leave a row with
\* total_predictions = n.
C14_EveryUpdateAddsOne ==
  [][CounterWritten =>
       /\ Cardinality(CountedRows(perf', now, tz)) = 1
       /\ DayTotal(perf') = DayTotal(perf) + 1]_vars

\* in this step a request that has saved its analysis is ended while reading
\* or writing the counter
CounterFailed(i) ==
  /\ inflight[i].route = "postAnalysis"
  /\ inflight[i].pc \in {"perfFind", "perfSave"}
  /\ inflight' = RemoveAt(inflight, i)

\* the analysis with this id is stored as the request built it
Stored(A, c) ==
  \E k \in 1..Len(A) :
    A[k] = NewAnalysis(c.id, c.token.userId, c.body, A[k].created_at)

\* C15: when the read or the write of AIModelPerformance fails after the
\* RetinalAnalysis was saved, the analysis stays stored, the counter rows are
\* left as they were, the response is 500 and nothing is broadcast.
C15_CounterFailureKeepsAnalysis ==
  [][\A i \in 1..Len(inflight) :
       CounterFailed(i) =>
         /\ Stored(analyses, inflight[i]) /\ analyses' = analyses
         /\ perf' = perf
         /\ last'.status = 500 /\ last'.event = "none"
         /\ last'.body = ErrorBody("Failed to save analysis")
         /\ broadcast' = broadcast]_vars

C15_AnalysisKeptCounterStale ==
  /\ last.route = "postAnalysis" /\ last.status = 500 /\ last.queries = 5
  /\ Len(analyses) = 1 /\ analyses[1].status = "completed"
  /\ perf = <<>>

------------------------------------------------------------------------------
(* POST /api/analysis as the entrypoint mounts the router *)

\* C20: a request of a doctor for an own patient, once answered, has stored
\* one analysis of the caller with status 'completed', has broadcast
\* analysis_completed to the connected clients and is answered 201.
C20_OwnPatientStoredBroadcast201 ==
  (last.route = "postAnalysis" /\ last.queries >= 2) =>
    /\ last.status = 201
    /\ broadcast = [type |-> "analysis_completed", to |-> Recipients(sockets, Null)]
    /\ \E k \in 1..Len(analyses) :
         /\ analyses[k].doctor_id = Oid(last.token.userId)
         /\ analyses[k].status = "completed"

------------------------------------------------------------------------------
(* The fields of a stored analysis *)

\* C16: as long as a RetinalAnalysis document is stored, no request changes
\* any of its fields but status: patient_id, doctor_id, condition_detected,
\* confidence_score and severity_level keep the values given at creation.
C16_OnlyStatusChanges ==
  [][\A k \in 1..Len(analyses), j \in 1..Len(analyses') :
       analyses'[j].id = analyses[k].id =>
         [analyses'[j] EXCEPT !.status = analyses[k].status] = analyses[k]]_vars

------------------------------------------------------------------------------
(* The references of a Patient record *)

\* C17: every Patient record has a user_id that is the _id of a stored user
\* and a doctor_id that is the _id of a stored user with role 'doctor'.
C17_PatientsOwnedAndAssigned ==
  \A p \in patients :
    /\ \E u \in users : p.user_id = Oid(u.id)
    /\ \E u \in users : p.doctor_id = Oid(u.id) /\ u.role = "doctor"

------------------------------------------------------------------------------
(* The overview as a snapshot *)

\* C18: within one overview response the counts of conditionDistribution sum
\* to at most totalAnalyses and recentAnalyses is at most totalAnalyses, also
\* when analyses are stored or deleted between the handler's queries.
C18_OverviewIsSnapshot ==
  (last.route = "overview" /\ last.status = 200) =>
    /\ TotalSeq(last.body.common.conditionDistribution) <= last.body.common.totalAnalyses
    /\ last.body.common.recentAnalyses <= last.body.common.totalAnalyses

------------------------------------------------------------------------------
(* The admin-only part of the overview *)

\* C19: a 200 of the overview has the keys topDoctors and aiModelPerformance
\* exactly when the caller is an admin; topDoctors then has at most 10
\* entries, each the group of a user with role 'doctor', largest
\* analysis_count first.
C19_AdminOnlyLeaderboard ==
  (last.route = "overview" /\ last.status = 200) =>
    /\ "topDoctors" \in DOMAIN last.body <=> last.token.role = "admin"
    /\ "aiModelPerformance" \in DOMAIN last.body <=> last.token.role = "admin"
    /\ last.token.role = "admin" =>
         LET top == last.body.topDoctors IN
         /\ Len(top) <= 10
         /\ \A k \in 1..Len(top) :
              \E u \in users : Oid(u.id) = top[k].key /\ u.role = "doctor"
         /\ \A k \in 1..(Len(top) - 1) : top[k].count >= top[k + 1].count

\* the admin's overview of eleven doctors of unequal volume
C19_EleventhDoctorCutOff ==
  /\ last.route = "overview" /\ last.status = 200 /\ last.token.role = "admin"
  /\ Len(last.body.topDoctors) = 10
  /\ last.body.topDoctors[1].count = 2 /\ last.body.topDoctors[10].count = 1
  /\ Cardinality({analyses[i].doctor_id : i \in 1..Len(analyses)}) = 12

------------------------------------------------------------------------------
(* The recipients of a broadcast *)

\* the role a broadcast of this type is restricted to (Null: none)
RoleOfEvent(type) == IF type = "patient_created" THEN "admin" ELSE Null

\* the payloads jwt.verify can hand to activeConnections.set
VerifiedUsers == {[role |-> u.role, userId |-> u.id] : u \in Users}

\* C21: a broadcast goes to exactly the sockets that are registered in
\* activeConnections, OPEN and (for a role-restricted event) of a user of
\* that role; a socket becomes registered only while OPEN and with the
\* payload of a valid token, is unregistered by its close event, and a socket
\* that is closed or never authenticated receives nothing.
C21_BroadcastToRegisteredOpenOfRole ==
  /\ [](\A s \in SocketIds : sockets[s].state = "none" => sockets[s].user = NoUser)
  /\ [][/\ \A s \in SocketIds :
             /\ (sockets[s].user = NoUser /\ sockets'[s].user # NoUser) =>
                  sockets[s].state = "open" /\ sockets'[s].user \in VerifiedUsers
             /\ (sockets[s].state = "closing" /\ sockets'[s].state # "closing") =>
                  sockets'[s] = [state |-> "none", user |-> NoUser]
        /\ broadcast' # broadcast =>
             /\ broadcast'.to =
                  {s \in SocketIds :
                     /\ sockets[s].user # NoUser
                     /\ sockets[s].state = "open"
                     /\ RoleOfEvent(broadcast'.type) # Null =>
                          sockets[s].user.role = RoleOfEvent(broadcast'.type)}
             /\ \A s \in SocketIds :
                  (sockets[s].state # "open" \/ sockets[s].user = NoUser) =>
                    s \notin broadcast'.to]_vars

\* patient_created went to the admin's socket alone while a doctor's socket
\* was registered and OPEN
C21_AdminSocketAlone ==
  /\ broadcast = [type |-> "patient_created", to |-> {1}]
  /\ sockets[1].state = "open" /\ sockets[1].user.role = "admin"
  /\ sockets[2].state = "open" /\ sockets[2].user.role = "doctor"

------------------------------------------------------------------------------
(* The isolation of doctors on the analysis routes *)

\* in this step the handler context at position i resumes
Resumed(i) ==
  \/ inflight' = RemoveAt(inflight, i)
  \/ Len(inflight') = Len(inflight) /\ inflight'[i] # inflight[i]
       /\ \A j \in 1..Len(inflight) : j # i => inflight'[j] = inflight[j]

\* the request of the context names a patient, or a stored analysis, of
\* another doctor than the caller
Foreign(c) ==
  /\ c.token.role = "doctor"
  /\ \/ /\ c.route = "postAnalysis"
        /\ \E p \in Patients : p.id = c.body.patient_id
                                 /\ p.doctor_id # Oid(c.token.userId)
     \/ /\ c.route \in {"putAnalysis", "deleteAnalysis"}
        /\ \E k \in 1..Len(analyses) :
             analyses[k].id = c.id /\ analyses[k].doctor_id # Oid(c.token.userId)

\* the documents a step stores, changes or removes
Touched == {analyses[k] : k \in 1..Len(analyses)} \ {analyses'[k] : k \in 1..Len(analyses')}
Stamped == {analyses'[k] : k \in 1..Len(analyses')} \ {analyses[k] : k \in 1..Len(analyses)}

\* the response of a doctor's GET holds analyses of the caller only
OwnOnly(r) ==
  \A k \in 1..Len(r.body.analyses) :
    r.body.analyses[k].doctor_id = Oid(r.token.userId)

\* a doctor's GET that names a stored analysis or a patient of another doctor
ForeignRead(r) ==
  /\ r.token.role = "doctor"
  /\ \/ /\ r.route = "getAnalysis"
        /\ \E k \in 1..Len(analyses) :
             analyses[k].id = r.param /\ analyses[k].doctor_id # Oid(r.token.userId)
     \/ /\ r.route = "getPatientAnalyses"
        /\ \E p \in Patients : p.id = r.param /\ p.doctor_id # Oid(r.token.userId)

------------------------------------------------------------------------------
(* The permission check of the upload routes *)

\* the caller is the doctor of the file's patient, the user of that patient
\* record, or the uploader
Entitled(token, f) ==
  \/ \E p \in PatientOfFile(f) : p.doctor_id.v = token.userId \/ p.user_id.v = token.userId
  \/ f.user_id.v = token.userId

\* the step answers a request of this route for the stored file f
Answers(route, f) ==
  /\ last' # last /\ last'.route = route /\ last'.token.kind = "valid"
  /\ last'.param \in {f.file_name, f.id}

\* The two GET routes of the router answer a caller who is no admin with the
\* file only if the caller is the doctor of the file's patient, the user of
\* that patient record or the uploader, and with 403 otherwise; a patient's
\* DELETE /:fileId takes a file from disk or from FileUpload only if the
\* patient uploaded it, and a DELETE answered 403 leaves the disk and
\* FileUpload as they were.
RouterChecksAccess ==
  /\ []((last.route \in {"getFile", "getFileUrl"} /\ last.status = 200
           /\ last.token.role # "admin") => Entitled(last.token, last.body.file))
  /\ [][/\ \A f \in files, route \in {"getFile", "getFileUrl"} :
             (Answers(route, f) /\ last'.token.role # "admin"
                /\ ~Entitled(last'.token, f)) => last'.status = 403
        /\ \A i \in 1..Len(inflight) :
             (inflight[i].route = "deleteFile" /\ inflight[i].token.role = "patient") =>
               inflight[i].body.user_id.v = inflight[i].token.userId
        /\ (files' # files \/ disk' # disk) =>
             \E i \in 1..Len(inflight) :
               /\ inflight[i].route = "deleteFile"
               /\ files \ files' \subseteq {inflight[i].body}
               /\ disk \ disk' \subseteq {inflight[i].body.file_name}
               /\ files' \subseteq files /\ disk' \subseteq disk
        /\ (last' # last /\ last'.route = "deleteFile" /\ last'.status = 403) =>
             files' = files /\ disk' = disk /\ broadcast' = broadcast]_vars

\* C23: file access is permission-checked: the content of an uploaded file
\* is sent to a caller who is no admin only if the caller is the doctor of the
\* file's patient, the user of that patient record or the uploader of the
\* file.
C23_FilesServedOnlyToEntitled ==
  (last.status = 200 /\ last.route \in {"getFile", "static"}
     /\ last.token.role # "admin") =>
    \E f \in SeedFiles :
      /\ f.file_name = last.param
      /\ last.token.kind = "valid"
      /\ Entitled(last.token, f)

------------------------------------------------------------------------------
(* trainingState and the spawned processes *)

\* the spawned processes that have not emitted 'close'
Alive == {i \in 1..Len(processes) : ~processes[i].closed}

\* C25: trainingState.isTraining is true whenever a spawned process has not
\* yet emitted 'close'; so POST /start is answered 400 while a process is
\* alive, and at most one process is alive at any time.
C25_TrainingWhileProcessAlive ==
  /\ [](Alive # {} => trainingState.isTraining)
  /\ [](Cardinality(Alive) <= 1)
  /\ [][(Alive # {} /\ last' # last /\ last'.route = "trainingStart")
          => last'.status = 400]_vars

\* the step is a POST /start answered with success: a process was spawned
\* and the state reset to 'starting'
StartSucceeds ==
  /\ Len(processes') = Len(processes) + 1
  /\ trainingState' = [isTraining |-> TRUE, status |-> "starting"]

\* the step delivers the 'close' of a process spawned before the stored one
EarlierProcessCloses ==
  \E i \in 1..Len(processes) :
    /\ i # trainingProcess
    /\ ~processes[i].closed /\ processes'[i].closed

\* C26: once POST /stop has set status 'stopped' and isTraining false, both
\* stay so until a POST /start succeeds, whatever the stopped process emits
\* afterwards; and the 'close' of a process of an earlier run leaves the state
\* of the current run alone.
C26_StoppedStaysStopped ==
  [][/\ (trainingState = [isTraining |-> FALSE, status |-> "stopped"])
          => (trainingState' = trainingState \/ StartSucceeds)
     /\ EarlierProcessCloses => trainingState' = trainingState]_vars

------------------------------------------------------------------------------
(* POST /api/auth/signup *)

\* the signup of context i has stored user u and still awaits newPatient.save()
AwaitsPatient(u) ==
  \E i \in 1..Len(inflight) :
    /\ inflight[i].route = "signup" /\ inflight[i].pc = "savePatient"
    /\ inflight[i].id = u.id

\* the step answers the signup of context i with this status
SignupAnswered(i, statuses) ==
  /\ inflight[i].route = "signup"
  /\ inflight' = RemoveAt(inflight, i)
  /\ last' # last /\ last'.route = "signup" /\ last'.status \in statuses

\* C29: signup is all-or-nothing: every stored user with role 'patient' has
\* a Patient record whose user_id is that user (at the latest when the signup
\* that stored the user is answered), and a signup answered 400 or 500 has
\* stored no user, so that its email is free for another signup.
C29_SignupAllOrNothing ==
  /\ [](\A u \in users :
          u.role = "patient" =>
            (\E p \in patients : p.user_id = Oid(u.id)) \/ AwaitsPatient(u))
  /\ [][\A i \in 1..Len(inflight) :
          SignupAnswered(i, {400, 500}) =>
            /\ inflight[i].id = Null
            /\ (inflight[i].pc = "saveUser" =>
                  ~\E u \in users' : u.email = inflight[i].body.email)]_vars

------------------------------------------------------------------------------
(* The role-gated dashboards of the frontend *)

Dashboards == {"FundusAnalysis", "PatientDashboard", "AdminDashboard"}

\* C24: in every render of the app a dashboard is returned only for a user
\* that is not null and whose role is the role of the page; a render of a
\* dashboard page for any other user returns nothing, and the render that
\* follows it is one of the page 'login'.
C24_DashboardsRoleGated ==
  /\ app.currentPage = app.renders[Len(app.renders)].page
  /\ \A i \in 1..Len(app.renders) :
       LET r == app.renders[i] IN
       /\ r.out \in Dashboards =>
            /\ r.user # Null /\ r.user = r.page
            /\ r.out = ComponentOf(r.page)
       /\ (r.page \in {"doctor", "patient", "admin"} /\ (r.user = Null \/ r.user # r.page)) =>
            /\ r.out = Null
            /\ i < Len(app.renders)
            /\ app.renders[i + 1].page = "login"

\* a doctor navigated to the admin page: nothing was rendered of it, the
\* login page is shown
C24_DoctorSentToLogin ==
  /\ app.user = "doctor" /\ app.currentPage = "login"
  /\ Len(app.renders) = 2
  /\ app.renders[1] = [user |-> "doctor", page |-> "admin", out |-> Null]
  /\ app.renders[2].out = "LoginPage"

------------------------------------------------------------------------------
(* The session of the AuthService *)

\* the step returns from the signOut of call i
SignOutReturns(i) ==
  /\ i \in 1..Len(auth.ops) /\ auth.ops[i].op = "signOut"
  /\ auth'.ops = RemoveAt(auth.ops, i)

\* C27: when signOut returns, whether the backend call resolved or threw,
\* currentUser and currentSession are null, both localStorage keys are gone,
\* isAuthenticated() is false, each registered listener has been called
\* exactly once, with (null, false), and the result is { success: true }.
C27_SignOutClearsSession ==
  [][\A i \in 1..Len(auth.ops) :
       SignOutReturns(i) =>
         /\ auth'.currentUser = Null /\ auth'.currentSession = Null
         /\ auth'.retinal_ai_token = Null /\ auth'.retinal_ai_user = Null
         /\ ~isAuthenticated(auth')
         /\ auth'.calls = [k \in 1..auth.authCallbacks |->
                             [listener |-> k, user |-> Null, isAuthenticated |-> FALSE]]
         /\ auth'.result = [op |-> "signOut", value |-> "success"]]_vars

\* a signOut of a signed-in user returned while two listeners were
\* registered and a signIn was still waiting for its profile
C27_SignedOutWithListeners ==
  /\ auth.result.op = "signOut" /\ auth.signedOut
  /\ auth.authCallbacks = 2 /\ Len(auth.calls) = 2
  /\ \E i \in 1..Len(auth.ops) : auth.ops[i].op = "signIn" /\ auth.ops[i].pc = "profile"

\* C28: currentUser is non-null only while an access token is held, in
\* currentSession or in localStorage; no listener is called with a non-null
\* user and isAuthenticated false; and once a signOut has returned and every
\* call started before it has finished, currentUser is null.
C28_UserOnlyWithToken ==
  /\ auth.currentUser # Null => getAccessToken(auth) # Null
  /\ \A k \in 1..Len(auth.calls) :
       auth.calls[k].user # Null => auth.calls[k].isAuthenticated
  /\ (auth.signedOut /\ auth.ops = <<>>) => auth.currentUser = Null

------------------------------------------------------------------------------
(* The reconnection of the training WebSocket *)

\* the step delivers the close event of socket i with a code other than 1000
ClosesAbnormally(i) ==
  /\ hook.ws[i].readyState # "CLOSED"
  /\ hook'.ws[i].readyState = "CLOSED" /\ hook'.ws[i].code # NormalClosure

\* the reconnect timers that have not fired and were not cleared
PendingTimers(h) == {t \in 1..Len(h.timers) : h.timers[t] = "pending"}

\* C30: while the component is mounted, a close with a code other than 1000
\* sets exactly one reconnect timer, and a timer that fires opens exactly
\* one WebSocket; once the component is unmounted, no WebSocket is created
\* and no reconnect timer is pending.
C30_ReconnectOnlyWhileMounted ==
  /\ [](~hook.mounted =>
          /\ \A i \in 1..Len(hook.ws) : hook.ws[i].mounted
          /\ PendingTimers(hook) = {})
  /\ [][/\ \A i \in 1..Len(hook.ws) :
             (hook.mounted /\ ClosesAbnormally(i)) =>
               Cardinality(PendingTimers(hook') \ PendingTimers(hook)) = 1
        /\ \A t \in PendingTimers(hook) :
             hook'.timers[t] = "fired" => Len(hook'.ws) = Len(hook.ws) + 1]_vars

====
